---- MODULE Spec2Model ----
(***************************************************************************)
(* The recording / transcription / summarization controller of the         *)
(* MeetingSummarizer component (src/unnamed/part_001) together with the     *)
(* Hugging Face transcription client (src/unnamed/part_002).                *)
(*                                                                          *)
(* The component is a React function component: every render creates new    *)
(* closures of its handlers over the state values of that render.  A        *)
(* handler invoked from a button reads the state of the latest render; the  *)
(* part of an async handler that runs after an `await` still reads the      *)
(* values captured when the handler was called.  The model keeps the        *)
(* captured values of every suspended handler (a "closure" record).         *)
(***************************************************************************)
EXTENDS Integers, Sequences, FiniteSets, TLC

(***************************************************************************)
(* Bounds of the model.                                                     *)
(***************************************************************************)
MaxSessions  == 2   \* startRecording and testWithSampleText calls the model follows
MaxChunks    == 1   \* timeslice chunks one recorder delivers before it stops
ClockStep    == 1000 \* seconds by which the wall clock advances in one step
MaxClock     == 1000 \* last clock reading the model follows

(***************************************************************************)
(* Program constants.                                                       *)
(***************************************************************************)
maxRecordingDuration == 1000
MinAudioSize         == 1000
SampleDuration       == 300

RecorderIds  == 1..MaxSessions
PipelineIds  == 1..MaxSessions

(***************************************************************************)
(* Text.  A string is a sequence of tokens; the token " " is white space,   *)
(* every other token stands for a run of non-space characters.              *)
(***************************************************************************)
Space == " "

RECURSIVE TrimLeft(_)
TrimLeft(s) ==
    IF s # <<>> /\ Head(s) = Space THEN TrimLeft(Tail(s)) ELSE s

RECURSIVE TrimRight(_)
TrimRight(s) ==
    IF s # <<>> /\ s[Len(s)] = Space THEN TrimRight(SubSeq(s, 1, Len(s) - 1)) ELSE s

Trim(s) == TrimRight(TrimLeft(s))

\* What the speech-to-text provider can recognise in a recording.
RecognizedTexts == { <<>>, <<Space, Space>>, <<Space, "hello">> }

sampleText == <<"sample-transcript">>

\* What the summarization provider can return.
SummaryTexts == { <<"summary">> }

NoSummary == <<>>
NoError   == "null"
NoTime    == -1
NoURL     == <<>>

(***************************************************************************)
(* Messages.                                                                *)
(***************************************************************************)
MsgNoAudioStop    == "No audio data was recorded. Please try again or use the Test option."
MsgTooShortStop   == "Audio recording is too short or empty. Please try again or use the Test option."
MsgNoAudioOnStop  == "No audio data was recorded. Please try again."
MsgTooShortOnStop == "Audio recording is too short or empty. Please try again."
MsgHfKeyNotSet    == "Hugging Face API key is not set."
MsgGoogleKeyNotSet == "Google Cloud API key is not set."
MsgGeminiKeyNotSet == "Google Gemini API key is not set."
MsgHfKeyMissing   == "Hugging Face API key is missing."
MsgGoogleKeyMissing == "Google Cloud API key is missing."
MsgGeminiKeyMissing == "Google Gemini API key is missing."
MsgNotSupported   == "Audio recording is not supported in this browser."
MsgNoTranscription == "No transcription was returned."
MsgPermissionDenied == "Permission denied"
MsgRecorderThrew  == "MediaRecorder is not defined"
MsgGoogleFailed   == "Google Speech request failed"
MsgSummaryFailed  == "Failed to generate summary: provider error"

NoSpeechText == <<"No-speech-detected-in-the-recording.">>
TranscriptionFailedText(msg) == <<"Transcription failed:">> \o msg


(***************************************************************************)
(* The Hugging Face client, src/unnamed/part_002.  An error message of the  *)
(* provider is a sequence of tokens; `includes` is membership of a token    *)
(* and toLowerCase maps the tokens that carry capitals.                     *)
(***************************************************************************)
LowerToken(t) ==
    CASE t = "API key" -> "api key"
      [] t = "Too Many Requests" -> "too many requests"
      [] t = "Unauthorized" -> "unauthorized"
      [] t = "Network" -> "network"
      [] OTHER -> t

toLowerCase(msg) == [i \in 1..Len(msg) |-> LowerToken(msg[i])]

includes(msg, t) == \E i \in 1..Len(msg) : msg[i] = t

HfMsgInvalidKey   == "Missing or invalid Hugging Face API key. Please check your .env file."
HfMsgRateLimited  == "Too many requests to Hugging Face API. Please try again later."
HfMsgTooLarge     == "Audio file is too large. Please record a shorter audio clip."
HfMsgBadFormat    == "Invalid audio format. The model may not support this audio format."
HfMsgNotFound     == "Model not found. The specified model may not be available."
HfMsgUnauthorized == "Unauthorized. Your Hugging Face API key may be invalid."
HfMsgNetwork      == "Network error when connecting to Hugging Face API."
HfMsgTimeout      == "Request to Hugging Face API timed out."

Thrown(msg)    == [thrown |-> TRUE,  msg |-> msg,     text |-> <<>>]
Returned(text) == [thrown |-> FALSE, msg |-> NoError, text |-> text]

\* The catch block of transcribeAudio: the first matching rule decides; an
\* error no rule matches is RETURNED as the transcription text.
ClassifyHfError(msg) ==
    LET errorMessage == toLowerCase(msg) IN
    IF includes(errorMessage, "api key") \/ includes(errorMessage, "apikey")
      THEN Thrown(HfMsgInvalidKey)
    ELSE IF includes(errorMessage, "429") \/ includes(errorMessage, "too many requests")
      THEN Thrown(HfMsgRateLimited)
    ELSE IF includes(errorMessage, "413") \/ includes(errorMessage, "too large")
      THEN Thrown(HfMsgTooLarge)
    ELSE IF includes(errorMessage, "400") \/ includes(errorMessage, "invalid format")
      THEN Thrown(HfMsgBadFormat)
    ELSE IF includes(errorMessage, "404") \/ includes(errorMessage, "not found")
      THEN Thrown(HfMsgNotFound)
    ELSE IF includes(errorMessage, "401") \/ includes(errorMessage, "unauthorized")
      THEN Thrown(HfMsgUnauthorized)
    ELSE IF includes(errorMessage, "network") \/ includes(errorMessage, "connection")
      THEN Thrown(HfMsgNetwork)
    ELSE IF includes(errorMessage, "timeout")
      THEN Thrown(HfMsgTimeout)
    ELSE Returned(TranscriptionFailedText(msg))

\* Messages transcribeAudio raises itself, as token sequences.
HfErrNoAudio   == <<"No audio data was recorded. Please try again.">>
HfErrTooShort  == <<"Audio recording is too short. Please record for a longer duration.">>
HfErrKeyNotSet == <<"Hugging Face", "API key", "is not set.">>
HfErrInvalidResponse == <<"Invalid response from Hugging Face API">>

\* The sum of the sizes of the chunks of a blob.
RECURSIVE BlobSize(_)
BlobSize(chunks) ==
    IF chunks = <<>> THEN 0 ELSE Head(chunks).size + BlobSize(Tail(chunks))

\* How a call of the provider ends in the controller's specification:
\* recognised text, or a rejection with a message.
HfOutcomes ==
    [kind : {"text"}, text : RecognizedTexts, msg : {<<>>}]
      \cup [kind : {"error"}, text : {<<>>},
            msg : { <<"429", "Too Many Requests">>, <<"503", "Service Unavailable">> }]

\* transcribeAudio(audioBlob), given the presence of the key and how the
\* provider call ends.
transcribeAudio(audioBlob, keyPresent, outcome) ==
    IF BlobSize(audioBlob) = 0 THEN ClassifyHfError(HfErrNoAudio)
    ELSE IF BlobSize(audioBlob) < MinAudioSize THEN ClassifyHfError(HfErrTooShort)
    ELSE IF ~keyPresent THEN ClassifyHfError(HfErrKeyNotSet)
    ELSE IF outcome.kind = "error" THEN ClassifyHfError(outcome.msg)
    ELSE IF outcome.kind = "invalid" THEN ClassifyHfError(HfErrInvalidResponse)
    ELSE IF Trim(outcome.text) = <<>> THEN Returned(NoSpeechText)
    ELSE Returned(outcome.text)

(***************************************************************************)
(* The Google Speech client and the Gemini summarization client are not     *)
(* among the sources; they are modelled from their contracts: a call        *)
(* returns a text or fails with a message.                                  *)
(***************************************************************************)
GoogleOutcomes ==
    [kind : {"text"}, text : RecognizedTexts] \cup [kind : {"error"}, text : {<<>>}]

transcribeWithGoogleSpeech(audioBlob, outcome) ==
    IF outcome.kind = "error" THEN Thrown(MsgGoogleFailed) ELSE Returned(outcome.text)

SummaryOutcomes ==
    [kind : {"text"}, text : SummaryTexts] \cup [kind : {"error"}, text : {<<>>}]

summarizeMeeting(transcriptText, outcome) ==
    IF outcome.kind = "error" THEN Thrown(MsgSummaryFailed) ELSE Returned(outcome.text)


(***************************************************************************)
(* State.                                                                   *)
(***************************************************************************)
VARIABLES
    env,              \* import.meta.env: which API keys are present
    captureSupported, \* navigator.mediaDevices.getUserMedia exists (part_000:
                      \* 'webkitSpeechRecognition' in window)
    mounted,          \* the component instance is mounted
    isRecording, isPaused, transcript, loading, transcribing, summary, error,
    startTime, duration, summaryHistory, audioURL, audioSupported,
    speechService,    \* the React state of the component
    mediaRecorderRef, \* 0 (null) or the recorder the ref holds
    audioChunksRef,   \* the chunk buffer the ref holds
    tickClosure,      \* what the armed interval callback captured
    recorders,        \* the streams and MediaRecorders created so far
    nRecorders,       \* how many startRecording calls were made
    micPending,       \* startRecording calls awaiting getUserMedia
    pipes,            \* the suspended stopRecording / testWithSampleText calls
    nPipes,           \* how many of them were started
    nTests,           \* how many testWithSampleText calls were made
    storage,          \* localStorage['meetingSummaryHistory']
    now,              \* the wall clock, in seconds
    recognitionRef,   \* part_000: 0 (null) or the recognizer the ref holds
    recognizers,      \* part_000: the SpeechRecognition objects created so far
    emailDialog,      \* EmailDialog: its props (isOpen, summary, date, duration)
                      \* and its state (emails, error)
    mailHandler,      \* the links assigned to window.location.href, in order
    authForm,         \* Auth: its React state and the position of its handler
    identityProvider  \* supabase.auth: the calls received and the session

reactState == <<isRecording, isPaused, transcript, loading, transcribing, summary,
                error, startTime, duration, summaryHistory, audioURL,
                audioSupported, speechService>>

\* The state of the speech-recognition variant of the component (part_000).
recogVars == <<recognitionRef, recognizers>>

\* The state of the email dialog and of the sign-in form.
formVars == <<emailDialog, mailHandler, authForm, identityProvider>>

vars == <<env, captureSupported, mounted, reactState, mediaRecorderRef,
          audioChunksRef, tickClosure, recorders, nRecorders, micPending,
          pipes, nPipes, nTests, storage, now, recogVars, formVars>>

apiStatus == [gemini |-> env.gemini, huggingface |-> env.huggingface,
              googleSpeech |-> env.google]

\* EmailDialog.tsx:13-14 and part_001:31: the dialog is closed, its fields empty.
EmailDialogInit ==
    /\ emailDialog = [isOpen |-> FALSE, emails |-> <<>>, error |-> <<>>,
                      summary |-> <<>>, date |-> NoTime, duration |-> 0]
    /\ mailHandler = <<>>

\* Auth.tsx:6-11: the declared state of the form; no handler is running and the
\* identity provider has received no call.
AuthState == [password |-> <<>>, loading |-> FALSE, error |-> NoError,
              mode |-> "signin", message |-> NoError, pc |-> "idle"]

\* part_002:9-27: the controller is rendered for a signed-in user, the form
\* is not.
SignedIn ==
    /\ authForm = AuthState
    /\ identityProvider = [calls |-> 0, session |-> TRUE]

FormsInit == EmailDialogInit /\ SignedIn

\* The state values a handler closure reads after it was created.
Closure(h, d, s) == [hist |-> h, dur |-> d, svc |-> s]

\* The closure of the render that is current.
CurrentClosure == Closure(summaryHistory, duration, speechService)

\* The closure of the first render, which the unmount cleanup keeps.
FirstRenderClosure == Closure(<<>>, 0, "huggingface")

\* No interval is armed: there is no callback and no closure of it.
NoClosure == Closure(<<>>, 0, "none")

\* A state setter: it has no effect once the component is unmounted.
Set(m, old, new) == IF m THEN new ELSE old

\* `t` is the time an active recorder has spent recording (not paused).
NoRecorder == [state |-> "none", live |-> FALSE, stopping |-> FALSE, n |-> 0, t |-> 0]

RecognizerIds == 1..MaxSessions

\* A recognizer with the state values its handlers captured (part_000:74-134).
NoRecognizer == [state |-> "none", isRecording |-> FALSE, isPaused |-> FALSE,
                 startTime |-> NoTime]

IdlePipe == [stage |-> "idle", kind |-> "none", rec |-> 0, hist |-> <<>>,
             dur |-> 0, svc |-> "none", blob |-> <<>>, text |-> <<>>]
DonePipe == [IdlePipe EXCEPT !.stage = "done"]

InFlight(p) == pipes[p].stage \in {"transcribing", "summarizing"}

OldRecord == [id |-> 0 - ClockStep, date |-> 0 - ClockStep, duration |-> 7,
              summary |-> <<"old-summary">>, transcript |-> <<"old-transcript">>]

PersistedAtStart == { <<>>, <<OldRecord>> }

KeyPresent(svc) == IF svc = "huggingface" THEN env.huggingface ELSE env.google

\* The value of the key 'meetingSummaryHistory' as getItem returns it: null
\* when the key is missing, or a text.  The text JSON.stringify wrote for a
\* list of records (lines 309, 365) is modelled as that list; the other
\* texts are named.
NoItem    == <<[item |-> "null"]>>
EmptyText == <<[text |-> ""]>>
Malformed == <<[text |-> "[{"]>>

PersistedValues == PersistedAtStart \cup {NoItem, EmptyText, Malformed}

\* JSON.parse: a SyntaxError for a text that is not JSON; null (coerced to
\* the text "null") parses to null, the serialization of a list to the list.
JSONparse(text) ==
    IF text \in {EmptyText, Malformed} THEN Thrown("SyntaxError") ELSE Returned(text)

\* A variant without the test `if (history)` of line 86.
LoadHistoryNoTest(history) == JSONparse(history)

\* The load of lines 85-88: what summaryHistory is set to, or what is thrown.
\* null and the empty text are falsy and leave the declared [].
LoadHistory(history) ==
    IF history \in {NoItem, EmptyText} THEN Returned(<<>>) ELSE JSONparse(history)

\* The mount effects (lines 49-88) have run, with the key holding one of
\* `persisted`.  An exception thrown in an effect is not caught by any error
\* boundary: React removes the component tree and discards its state.
InitFrom(persisted) ==
    /\ env \in [gemini : BOOLEAN, huggingface : BOOLEAN, google : BOOLEAN]
    /\ captureSupported \in BOOLEAN
    /\ storage \in persisted
    /\ mounted = ~LoadHistory(storage).thrown
    /\ isRecording = FALSE /\ isPaused = FALSE
    /\ transcript = <<>> /\ loading = FALSE /\ transcribing = FALSE
    /\ summary = NoSummary
    /\ error = IF ~mounted THEN NoError
               ELSE IF ~env.gemini THEN MsgGeminiKeyMissing
               ELSE IF ~env.huggingface /\ ~env.google THEN "No speech-to-text API keys are available."
               ELSE IF ~captureSupported THEN MsgNotSupported
               ELSE NoError
    /\ startTime = NoTime /\ duration = 0
    /\ summaryHistory = IF mounted THEN LoadHistory(storage).text ELSE <<>>
    /\ audioURL = NoURL
    /\ audioSupported = IF mounted THEN captureSupported ELSE TRUE
    /\ speechService = IF mounted /\ env.google THEN "google" ELSE "huggingface"
    /\ mediaRecorderRef = 0
    /\ audioChunksRef = <<>>
    /\ tickClosure = NoClosure
    /\ recorders = [i \in RecorderIds |-> NoRecorder]
    /\ nRecorders = 0 /\ micPending = 0
    /\ pipes = [p \in PipelineIds |-> IdlePipe]
    /\ nPipes = 0 /\ nTests = 0
    /\ now = 0
    /\ recognitionRef = 0
    /\ recognizers = [k \in RecognizerIds |-> NoRecognizer]
    /\ FormsInit

\* The key holds the serialization of a list of records.
Init == InitFrom(PersistedAtStart)

\* The key is missing or holds any text.
LoadInit == InitFrom(PersistedValues)

\* The effect of lines 98-119 runs again after a render in which startTime
\* or isPaused changed, and the interval it arms captures that render.
IntervalArmed == mounted /\ startTime # NoTime /\ ~isPaused

EffectRerun ==
    tickClosure' = IF ~IntervalArmed' THEN NoClosure
                   ELSE IF startTime' # startTime \/ isPaused' # isPaused
                   THEN Closure(summaryHistory', duration', speechService')
                   ELSE tickClosure


(***************************************************************************)
(* Capture: startRecording, the recorder's events, pause and resume.        *)
(***************************************************************************)
\* Sizes of the data of a timeslice, and of the rest a stop() flushes.
SliceSizes == {400, 1000}
FlushSizes == {0, 400}

Chunk(i, k, size) == [rec |-> i, k |-> k, size |-> size]

StartButtonEnabled ==
    /\ ~isRecording
    /\ audioSupported /\ apiStatus.gemini
    /\ ~(speechService = "huggingface" /\ ~apiStatus.huggingface)
    /\ ~(speechService = "google" /\ ~apiStatus.googleSpeech)

\* The catch block of startRecording (lines 201-205).
StartFailed(msg) ==
    /\ error' = Set(mounted, error, msg)
    /\ audioSupported' = Set(mounted, audioSupported, FALSE)

\* A variant without the test of the summarizer's key (lines 139-141).
startRecordingNoGeminiTest ==
    IF speechService = "huggingface" /\ ~apiStatus.huggingface
      THEN StartFailed(MsgHfKeyMissing) /\ UNCHANGED micPending
    ELSE IF speechService = "google" /\ ~apiStatus.googleSpeech
      THEN StartFailed(MsgGoogleKeyMissing) /\ UNCHANGED micPending
    ELSE IF ~captureSupported
      THEN StartFailed(MsgNotSupported) /\ UNCHANGED micPending
    ELSE /\ error' = NoError
         /\ micPending' = micPending + 1
         /\ UNCHANGED audioSupported

\* startRecording up to its await of getUserMedia (lines 128-153).
startRecording ==
    IF speechService = "huggingface" /\ ~apiStatus.huggingface
      THEN StartFailed(MsgHfKeyMissing) /\ UNCHANGED micPending
    ELSE IF speechService = "google" /\ ~apiStatus.googleSpeech
      THEN StartFailed(MsgGoogleKeyMissing) /\ UNCHANGED micPending
    ELSE IF ~apiStatus.gemini
      THEN StartFailed(MsgGeminiKeyMissing) /\ UNCHANGED micPending
    ELSE IF ~captureSupported
      THEN StartFailed(MsgNotSupported) /\ UNCHANGED micPending
    ELSE /\ error' = NoError
         /\ micPending' = micPending + 1
         /\ UNCHANGED audioSupported

ClickStart ==
    /\ mounted /\ StartButtonEnabled
    /\ nRecorders + nTests < MaxSessions
    /\ nRecorders' = nRecorders + 1
    /\ startRecording
    /\ UNCHANGED <<env, captureSupported, mounted, isRecording, isPaused, transcript,
                   loading, transcribing, summary, startTime, duration,
                   summaryHistory, audioURL, speechService, mediaRecorderRef,
                   audioChunksRef, recorders, pipes, nPipes, nTests,
                   storage, now>>
    /\ EffectRerun
    /\ UNCHANGED <<recogVars, formVars>>

NextRecorder == Cardinality({i \in RecorderIds : recorders[i].state # "none"}) + 1

\* getUserMedia resolves: lines 155-200.
MicGranted ==
    /\ micPending > 0
    /\ micPending' = micPending - 1
    /\ recorders' = [recorders EXCEPT ![NextRecorder] =
                       [state |-> "recording", live |-> TRUE, stopping |-> FALSE,
                        n |-> 0, t |-> 0]]
    /\ audioChunksRef' = <<>>
    /\ mediaRecorderRef' = NextRecorder
    /\ isRecording' = Set(mounted, isRecording, TRUE)
    /\ startTime' = Set(mounted, startTime, now)
    /\ UNCHANGED <<env, captureSupported, mounted, isPaused, transcript, loading,
                   transcribing, summary, error, duration, summaryHistory, audioURL,
                   audioSupported, speechService, nRecorders, pipes,
                   nPipes, nTests, storage, now>>
    /\ EffectRerun
    /\ UNCHANGED <<recogVars, formVars>>

\* getUserMedia resolves and a statement of lines 155-166 throws (a browser
\* without MediaRecorder): the catch block runs with the stream open.
MicGrantedRecorderThrows ==
    /\ micPending > 0
    /\ micPending' = micPending - 1
    /\ recorders' = [recorders EXCEPT ![NextRecorder] =
                       [state |-> "inactive", live |-> TRUE, stopping |-> FALSE,
                        n |-> 0, t |-> 0]]
    /\ StartFailed(MsgRecorderThrew)
    /\ UNCHANGED <<env, captureSupported, mounted, isRecording, isPaused, transcript,
                   loading, transcribing, summary, startTime, duration,
                   summaryHistory, audioURL, speechService, mediaRecorderRef,
                   audioChunksRef, nRecorders, pipes, nPipes,
                   nTests, storage, now>>
    /\ EffectRerun
    /\ UNCHANGED <<recogVars, formVars>>

\* getUserMedia rejects: the catch block.
MicDenied ==
    /\ micPending > 0
    /\ micPending' = micPending - 1
    /\ StartFailed(MsgPermissionDenied)
    /\ UNCHANGED <<env, captureSupported, mounted, isRecording, isPaused, transcript,
                   loading, transcribing, summary, startTime, duration,
                   summaryHistory, audioURL, speechService, mediaRecorderRef,
                   audioChunksRef, recorders, nRecorders, pipes, nPipes,
                   nTests, storage, now>>
    /\ EffectRerun
    /\ UNCHANGED <<recogVars, formVars>>

\* mediaRecorder.ondataavailable (lines 170-174): the buffer the ref holds NOW.
ondataavailable(i, k, size) ==
    audioChunksRef' = IF size > 0 THEN Append(audioChunksRef, Chunk(i, k, size))
                      ELSE audioChunksRef

\* A timeslice of a recording recorder elapses.
DataAvailable(i, size) ==
    /\ recorders[i].state = "recording"
    /\ recorders[i].n < MaxChunks
    /\ recorders' = [recorders EXCEPT ![i].n = @ + 1]
    /\ ondataavailable(i, recorders[i].n + 1, size)
    /\ UNCHANGED <<env, captureSupported, mounted, reactState, mediaRecorderRef,
                   nRecorders, micPending, pipes, nPipes, nTests, storage, now>>
    /\ EffectRerun
    /\ UNCHANGED <<recogVars, formVars>>

\* mediaRecorder.onstop (lines 176-194), on the buffer as it is then.
onstop(chunks) ==
    IF Len(chunks) = 0
      THEN error' = Set(mounted, error, MsgNoAudioOnStop) /\ UNCHANGED audioURL
    ELSE IF BlobSize(chunks) < MinAudioSize
      THEN error' = Set(mounted, error, MsgTooShortOnStop) /\ UNCHANGED audioURL
    ELSE audioURL' = Set(mounted, audioURL, chunks) /\ UNCHANGED error

\* The task a stop() queued: the last dataavailable, then the stop event.
RecorderStopEvent(i, size) ==
    /\ recorders[i].stopping
    /\ recorders' = [recorders EXCEPT ![i].stopping = FALSE]
    /\ ondataavailable(i, recorders[i].n + 1, size)
    /\ onstop(audioChunksRef')
    /\ UNCHANGED <<env, captureSupported, mounted, isRecording, isPaused, transcript,
                   loading, transcribing, summary, startTime, duration,
                   summaryHistory, audioSupported, speechService, mediaRecorderRef,
                   nRecorders, micPending, pipes, nPipes, nTests, storage, now>>
    /\ EffectRerun
    /\ UNCHANGED <<recogVars, formVars>>

RefState == IF mediaRecorderRef = 0 THEN "null" ELSE recorders[mediaRecorderRef].state

\* A variant that tests the ref only, not the state of the recorder.
pauseRecordingRefOnly ==
    IF RefState # "null"
      THEN /\ recorders' = [recorders EXCEPT ![mediaRecorderRef].state = "paused"]
           /\ isPaused' = TRUE
      ELSE UNCHANGED <<recorders, isPaused>>

\* Lines 208-218.
pauseRecording ==
    IF RefState = "recording"
      THEN /\ recorders' = [recorders EXCEPT ![mediaRecorderRef].state = "paused"]
           /\ isPaused' = TRUE
      ELSE UNCHANGED <<recorders, isPaused>>

\* Lines 220-230.
resumeRecording ==
    IF RefState = "paused"
      THEN /\ recorders' = [recorders EXCEPT ![mediaRecorderRef].state = "recording"]
           /\ isPaused' = FALSE
      ELSE UNCHANGED <<recorders, isPaused>>

\* The pause / resume button (lines 554-556).
ClickPauseResume ==
    /\ mounted /\ isRecording
    /\ IF isPaused THEN resumeRecording ELSE pauseRecording
    /\ UNCHANGED <<env, captureSupported, mounted, isRecording, transcript, loading,
                   transcribing, summary, error, startTime, duration, summaryHistory,
                   audioURL, audioSupported, speechService, mediaRecorderRef,
                   audioChunksRef, nRecorders, micPending, pipes, nPipes,
                   nTests, storage, now>>
    /\ EffectRerun
    /\ UNCHANGED <<recogVars, formVars>>


(***************************************************************************)
(* stopRecording (lines 232-324) and testWithSampleText (lines 334-377).    *)
(* `cl` is the closure the call reads its state from.                       *)
(***************************************************************************)
stopVars == <<recorders, isRecording, isPaused, transcribing, loading, error,
              pipes, nPipes>>

\* A variant of the finally block without setLoading(false).
FinallyKeepsLoading(m) ==
    /\ transcribing' = Set(m, transcribing, FALSE)
    /\ UNCHANGED loading

\* The finally block (lines 317-320); `m`: the setters still have an effect.
Finally(m) ==
    /\ transcribing' = Set(m, transcribing, FALSE)
    /\ loading' = Set(m, loading, FALSE)

\* recorder.stop() and the release of the tracks (lines 237-249).
StopRecorder ==
    recorders' = [recorders EXCEPT ![mediaRecorderRef].state = "inactive",
                                   ![mediaRecorderRef].stopping = TRUE,
                                   ![mediaRecorderRef].live = FALSE,
                                   ![mediaRecorderRef].t = 0]

\* The call suspended at `await transcribe...` (lines 264-280).
AwaitTranscription(cl, audioBlob) ==
    /\ nPipes' = nPipes + 1
    /\ pipes' = [pipes EXCEPT ![nPipes + 1] =
                   [stage |-> "transcribing", kind |-> "recording",
                    rec |-> mediaRecorderRef, hist |-> cl.hist,
                    dur |-> cl.dur, svc |-> cl.svc, blob |-> audioBlob,
                    text |-> <<>>]]

\* A variant without the size test of lines 259-261.
StopPipelineNoSizeTest(cl) ==
    LET audioBlob == audioChunksRef IN
    IF Len(audioChunksRef) > 0
    THEN IF ~KeyPresent(cl.svc)
           THEN /\ error' = IF cl.svc = "huggingface"
                            THEN MsgHfKeyNotSet ELSE MsgGoogleKeyNotSet
                /\ Finally(TRUE)
                /\ UNCHANGED <<pipes, nPipes>>
         ELSE /\ transcribing' = TRUE
              /\ error' = NoError
              /\ AwaitTranscription(cl, audioBlob)
              /\ UNCHANGED loading
    ELSE /\ error' = MsgNoAudioStop
         /\ UNCHANGED <<transcribing, loading, pipes, nPipes>>

\* The part of stopRecording after the recorder was stopped (lines 251-323),
\* up to its first await.
StopPipeline(cl) ==
    LET audioBlob == audioChunksRef IN
    IF Len(audioChunksRef) > 0
    THEN IF BlobSize(audioBlob) < MinAudioSize
           THEN /\ error' = MsgTooShortStop
                /\ Finally(TRUE)
                /\ UNCHANGED <<pipes, nPipes>>
         ELSE IF ~KeyPresent(cl.svc)
           THEN /\ error' = IF cl.svc = "huggingface"
                            THEN MsgHfKeyNotSet ELSE MsgGoogleKeyNotSet
                /\ Finally(TRUE)
                /\ UNCHANGED <<pipes, nPipes>>
         ELSE /\ transcribing' = TRUE
              /\ error' = NoError
              /\ AwaitTranscription(cl, audioBlob)
              /\ UNCHANGED loading
    ELSE /\ error' = MsgNoAudioStop
         /\ UNCHANGED <<transcribing, loading, pipes, nPipes>>

\* A variant whose guard tests the ref only: stop() of an inactive recorder
\* throws, and the catch block of lines 243-249 runs.
stopRecordingNullCheckOnly(cl) ==
    IF RefState = "null"
    THEN UNCHANGED stopVars
    ELSE IF RefState = "inactive"
    THEN /\ error' = "InvalidStateError"
         /\ isRecording' = FALSE
         /\ isPaused' = FALSE
         /\ UNCHANGED <<recorders, transcribing, loading, pipes, nPipes>>
    ELSE /\ StopRecorder
         /\ isRecording' = FALSE
         /\ isPaused' = FALSE
         /\ StopPipeline(cl)

stopRecording(cl) ==
    IF RefState \in {"null", "inactive"}
    THEN UNCHANGED stopVars
    ELSE /\ StopRecorder
         /\ isRecording' = FALSE
         /\ isPaused' = FALSE
         /\ StopPipeline(cl)

\* stopRecording as the cleanup of an unmount runs it: the same steps, and
\* none of its state setters has an effect.
stopRecordingInCleanup(cl) ==
    LET audioBlob == audioChunksRef IN
    IF RefState \in {"null", "inactive"}
    THEN UNCHANGED <<recorders, pipes, nPipes>>
    ELSE /\ StopRecorder
         /\ IF /\ Len(audioChunksRef) > 0
               /\ ~(BlobSize(audioBlob) < MinAudioSize)
               /\ KeyPresent(cl.svc)
            THEN AwaitTranscription(cl, audioBlob)
            ELSE UNCHANGED <<pipes, nPipes>>

\* The stop button (lines 570-572).
ClickStop ==
    /\ mounted /\ isRecording
    /\ stopRecording(CurrentClosure)
    /\ UNCHANGED <<env, captureSupported, mounted, transcript, summary, startTime,
                   duration, summaryHistory, audioURL, audioSupported, speechService,
                   mediaRecorderRef, audioChunksRef, nRecorders, micPending,
                   nTests, storage, now>>
    /\ EffectRerun
    /\ UNCHANGED <<recogVars, formVars>>

testWithSampleText ==
    IF ~apiStatus.gemini
    THEN /\ error' = MsgGeminiKeyMissing
         /\ Finally(TRUE)
         /\ UNCHANGED <<transcript, pipes, nPipes>>
    ELSE /\ transcribing' = TRUE
         /\ error' = NoError
         /\ transcript' = sampleText
         /\ loading' = TRUE
         /\ nPipes' = nPipes + 1
         /\ pipes' = [pipes EXCEPT ![nPipes + 1] =
                        [stage |-> "summarizing", kind |-> "test", rec |-> 0,
                         hist |-> summaryHistory, dur |-> SampleDuration,
                         svc |-> "none", blob |-> <<>>, text |-> sampleText]]

\* The test button (lines 540-550).
ClickTest ==
    /\ mounted /\ ~isRecording /\ apiStatus.gemini
    /\ nRecorders + nTests < MaxSessions
    /\ nTests' = nTests + 1
    /\ testWithSampleText
    /\ UNCHANGED <<env, captureSupported, mounted, isRecording, isPaused, summary,
                   startTime, duration, summaryHistory, audioURL, audioSupported,
                   speechService, mediaRecorderRef, audioChunksRef, recorders,
                   nRecorders, micPending, storage, now>>
    /\ EffectRerun
    /\ UNCHANGED <<recogVars, formVars>>

\* stopRecording after `await transcribe...` returned or threw `res`
\* (lines 282-294 and the catch at 314-320).
AfterTranscription(p, res) ==
    IF res.thrown
    THEN /\ error' = Set(mounted, error, res.msg)
         /\ Finally(mounted)
         /\ pipes' = [pipes EXCEPT ![p] = DonePipe]
         /\ UNCHANGED transcript
    ELSE IF res.text = <<>> \/ Trim(res.text) = <<>>
    THEN /\ error' = Set(mounted, error, MsgNoTranscription)
         /\ Finally(mounted)
         /\ pipes' = [pipes EXCEPT ![p] = DonePipe]
         /\ UNCHANGED transcript
    ELSE IF ~env.gemini
    THEN /\ transcript' = Set(mounted, transcript, res.text)
         /\ error' = Set(mounted, error, MsgGeminiKeyNotSet)
         /\ Finally(mounted)
         /\ pipes' = [pipes EXCEPT ![p] = DonePipe]
    ELSE /\ transcript' = Set(mounted, transcript, res.text)
         /\ loading' = Set(mounted, loading, TRUE)
         /\ pipes' = [pipes EXCEPT ![p].stage = "summarizing", ![p].text = res.text,
                                    ![p].blob = <<>>, ![p].rec = 0]
         /\ UNCHANGED <<error, transcribing>>

pipeFrame == <<env, captureSupported, mounted, isRecording, isPaused, startTime,
               duration, audioURL, audioSupported, speechService, mediaRecorderRef,
               audioChunksRef, recorders, nRecorders, micPending, nPipes,
               nTests, now>>

\* The Hugging Face call of pipeline p settles.
TranscribeHuggingFace(p, outcome) ==
    /\ pipes[p].stage = "transcribing" /\ pipes[p].svc = "huggingface"
    /\ AfterTranscription(p, transcribeAudio(pipes[p].blob, env.huggingface, outcome))
    /\ UNCHANGED <<pipeFrame, summary, summaryHistory, storage>>
    /\ EffectRerun
    /\ UNCHANGED <<recogVars, formVars>>

\* The Google Speech call of pipeline p settles.
TranscribeGoogle(p, outcome) ==
    /\ pipes[p].stage = "transcribing" /\ pipes[p].svc = "google"
    /\ AfterTranscription(p, transcribeWithGoogleSpeech(pipes[p].blob, outcome))
    /\ UNCHANGED <<pipeFrame, summary, summaryHistory, storage>>
    /\ EffectRerun
    /\ UNCHANGED <<recogVars, formVars>>

\* Lines 299-305 and 355-361.
NewSummary(t, dur, meetingSummary, transcribedText) ==
    [id |-> t, date |-> t, duration |-> dur, summary |-> meetingSummary,
     transcript |-> transcribedText]

\* A variant that puts the new record behind the records read.
UpdatedHistoryAtEnd(newSummary, hist) == Append(hist, newSummary)

\* Lines 307 and 363.
UpdatedHistory(newSummary, hist) == <<newSummary>> \o hist

\* A variant that persists the new record alone, not the updated list.
SummarizeFulfilledPersistsNewOnly(p, meetingSummary) ==
    LET newSummary == NewSummary(now, pipes[p].dur, meetingSummary, pipes[p].text)
        updatedHistory == UpdatedHistory(newSummary, pipes[p].hist)
    IN /\ summary' = Set(mounted, summary, meetingSummary)
       /\ summaryHistory' = Set(mounted, summaryHistory, updatedHistory)
       /\ storage' = <<newSummary>>
       /\ Finally(mounted)
       /\ UNCHANGED <<error, transcript>>

\* summarizeMeeting returned (lines 296-309, 352-365), then the finally block.
SummarizeFulfilled(p, meetingSummary) ==
    LET newSummary == NewSummary(now, pipes[p].dur, meetingSummary, pipes[p].text)
        updatedHistory == UpdatedHistory(newSummary, pipes[p].hist)
    IN /\ summary' = Set(mounted, summary, meetingSummary)
       /\ summaryHistory' = Set(mounted, summaryHistory, updatedHistory)
       /\ storage' = updatedHistory
       /\ Finally(mounted)
       /\ UNCHANGED <<error, transcript>>

\* A variant whose catch block also clears the transcript.
SummarizeRejectedClearsTranscript(p, msg) ==
    /\ error' = Set(mounted, error, msg)
    /\ transcript' = Set(mounted, transcript, <<>>)
    /\ Finally(mounted)
    /\ UNCHANGED <<summary, summaryHistory, storage>>

\* summarizeMeeting threw (lines 310-313, 366-369), then the finally block.
SummarizeRejected(p, msg) ==
    /\ error' = Set(mounted, error, msg)
    /\ Finally(mounted)
    /\ UNCHANGED <<summary, summaryHistory, storage, transcript>>

\* The summarization call of pipeline p settles.
Summarize(p, outcome) ==
    /\ pipes[p].stage = "summarizing"
    /\ LET res == summarizeMeeting(pipes[p].text, outcome) IN
       IF res.thrown THEN SummarizeRejected(p, res.msg)
                     ELSE SummarizeFulfilled(p, res.text)
    /\ pipes' = [pipes EXCEPT ![p] = DonePipe]
    /\ UNCHANGED pipeFrame
    /\ EffectRerun
    /\ UNCHANGED <<recogVars, formVars>>


(***************************************************************************)
(* The clock, the duration interval, settings, sign-out and unmount.        *)
(***************************************************************************)
Tick ==
    /\ now + ClockStep <= MaxClock
    /\ now' = now + ClockStep
    /\ recorders' = [i \in RecorderIds |->
                       IF recorders[i].state = "recording"
                       THEN [recorders[i] EXCEPT !.t = @ + ClockStep]
                       ELSE recorders[i]]
    /\ UNCHANGED <<env, captureSupported, mounted, reactState, mediaRecorderRef,
                   audioChunksRef, nRecorders, micPending, pipes, nPipes, nTests, storage>>
    /\ EffectRerun
    /\ UNCHANGED <<recogVars, formVars>>

\* The interval callback (lines 100-109), with the closure it was armed in.
WatchdogTick ==
    /\ IntervalArmed
    /\ LET diff == now - startTime IN
       /\ duration' = diff
       /\ IF diff >= maxRecordingDuration
            THEN stopRecording(tickClosure)
            ELSE UNCHANGED stopVars
    /\ UNCHANGED <<env, captureSupported, mounted, transcript, summary, startTime,
                   summaryHistory, audioURL, audioSupported, speechService,
                   mediaRecorderRef, audioChunksRef, nRecorders, micPending,
                   nTests, storage, now>>
    /\ EffectRerun
    /\ UNCHANGED <<recogVars, formVars>>

\* Lines 383-386, from the radio buttons of lines 417-438.
handleSpeechServiceChange(service) ==
    /\ mounted
    /\ service # speechService
    /\ IF service = "huggingface" THEN apiStatus.huggingface ELSE apiStatus.googleSpeech
    /\ speechService' = service
    /\ UNCHANGED <<env, captureSupported, mounted, isRecording, isPaused, transcript,
                   loading, transcribing, summary, error, startTime, duration,
                   summaryHistory, audioURL, audioSupported, mediaRecorderRef,
                   audioChunksRef, recorders, nRecorders, micPending, pipes, nPipes, nTests, storage, now>>
    /\ EffectRerun
    /\ UNCHANGED <<recogVars, formVars>>

\* Lines 326-331, up to the await of signOut.
handleSignOut ==
    /\ mounted
    /\ IF isRecording THEN stopRecording(CurrentClosure) ELSE UNCHANGED stopVars
    /\ UNCHANGED <<env, captureSupported, mounted, transcript, summary, startTime,
                   duration, summaryHistory, audioURL, audioSupported, speechService,
                   mediaRecorderRef, audioChunksRef, nRecorders, micPending,
                   nTests, storage, now>>
    /\ EffectRerun
    /\ UNCHANGED <<recogVars, formVars>>

\* The state of a component that was destroyed: nothing reads it again, and
\* it is shown as the values of the declarations (lines 20-39).
Destroyed ==
    /\ isRecording' = FALSE /\ isPaused' = FALSE
    /\ transcript' = <<>> /\ loading' = FALSE /\ transcribing' = FALSE
    /\ summary' = NoSummary /\ error' = NoError
    /\ startTime' = NoTime /\ duration' = 0
    /\ summaryHistory' = <<>> /\ audioURL' = NoURL
    /\ audioSupported' = TRUE /\ speechService' = "huggingface"

\* The component unmounts (the session ended, or the user left the route):
\* the cleanup of lines 90-95, which calls the stopRecording of the first
\* render.
Unmount ==
    /\ mounted
    /\ mounted' = FALSE
    /\ stopRecordingInCleanup(FirstRenderClosure)
    /\ Destroyed
    /\ UNCHANGED <<env, captureSupported, mediaRecorderRef, audioChunksRef,
                   nRecorders, micPending, nTests, storage, now>>
    /\ EffectRerun
    /\ UNCHANGED <<recogVars, formVars>>

Next ==
    \/ ClickStart
    \/ MicGranted
    \/ MicGrantedRecorderThrows
    \/ MicDenied
    \/ \E i \in RecorderIds, size \in SliceSizes : DataAvailable(i, size)
    \/ \E i \in RecorderIds, size \in FlushSizes : RecorderStopEvent(i, size)
    \/ ClickPauseResume
    \/ ClickStop
    \/ ClickTest
    \/ \E p \in PipelineIds, o \in HfOutcomes : TranscribeHuggingFace(p, o)
    \/ \E p \in PipelineIds, o \in GoogleOutcomes : TranscribeGoogle(p, o)
    \/ \E p \in PipelineIds, o \in SummaryOutcomes : Summarize(p, o)
    \/ Tick
    \/ WatchdogTick
    \/ \E service \in {"huggingface", "google"} : handleSpeechServiceChange(service)
    \/ handleSignOut
    \/ Unmount

Spec == Init /\ [][Next]_vars

LoadSpec == LoadInit /\ [][Next]_vars

\* A transcription or summarization call that was issued settles: the
\* provider answers, or the request fails.
CallSettles ==
    \E p \in PipelineIds :
        \/ \E o \in HfOutcomes : TranscribeHuggingFace(p, o)
        \/ \E o \in GoogleOutcomes : TranscribeGoogle(p, o)
        \/ \E o \in SummaryOutcomes : Summarize(p, o)

\* As long as calls are pending, one of them settles.
ExternalCallsSettle == WF_vars(CallSettles)

\* The starts in which pipelines can exist: both handlers that start one test
\* the summarizer's key first (lines 139-141, 338-340), and what the storage
\* holds decides no branch of them.
LiveInit == InitFrom({<<>>}) /\ env.gemini /\ captureSupported

LiveSpec == LiveInit /\ [][Next]_vars /\ ExternalCallsSettle


(***************************************************************************)
(* Claims.                                                                  *)
(***************************************************************************)
Range(q) == {q[j] : j \in 1..Len(q)}

ActiveRecorders == {i \in RecorderIds : recorders[i].state \in {"recording", "paused"}}
LiveStreams == {i \in RecorderIds : recorders[i].live}
PipelinesInFlight == {p \in PipelineIds : InFlight(p)}

\* C1: while a pipeline started by stopRecording or testWithSampleText is in
\* flight, no step starts another pipeline and no step accepts a
\* startRecording request (a call that goes on to await the microphone).
C1_OnePipelineInFlight ==
    [][PipelinesInFlight # {} => (nPipes' = nPipes /\ micPending' <= micPending)]_vars

\* C2: in every reachable state at most one capture session is active: at
\* most one recorder is recording or paused, at most one microphone stream is
\* live, and no startRecording awaits the microphone while a session is active
\* or another call awaits it.
C2_OneCaptureSession ==
    /\ Cardinality(ActiveRecorders) <= 1
    /\ Cardinality(LiveStreams) <= 1
    /\ Cardinality(ActiveRecorders) + micPending <= 1

\* C3: history is append-only in durable storage: every step that writes the
\* storage writes one new record followed by all records that were persisted
\* before it, in unchanged order.
C3_StorageAppendOnly ==
    [][storage' # storage => (storage' # <<>> /\ Tail(storage') = storage)]_vars

\* C4: when the summarization of a recording's pipeline returns, exactly one
\* new record is put at index 0 of History, in front of the History the
\* stopRecording call read; its transcript is the text the transcription
\* client returned and its summary the text the summarization client
\* returned; the whole updated list is what is persisted.  In a run with no
\* other pipeline, that is the current History with the record in front.
C4_SuccessAppendsRecord ==
    [][\A p \in PipelineIds :
        /\ (pipes[p].stage = "summarizing" /\ pipes[p].kind = "recording") =>
             \A o \in SummaryOutcomes :
                (o.kind = "text" /\ Summarize(p, o)) =>
                    /\ storage' # <<>>
                    /\ storage'[1].transcript = pipes[p].text
                    /\ storage'[1].summary = o.text
                    /\ Tail(storage') = pipes[p].hist
                    /\ mounted => (summaryHistory' = storage' /\ summary' = o.text)
                    /\ (mounted /\ nPipes = 1) =>
                          (Tail(storage') = storage /\ Tail(summaryHistory') = summaryHistory)
        /\ (pipes[p].stage = "transcribing" /\ pipes'[p].stage = "summarizing") =>
             /\ \A o \in HfOutcomes :
                    TranscribeHuggingFace(p, o) =>
                        pipes'[p].text =
                            transcribeAudio(pipes[p].blob, env.huggingface, o).text
             /\ \A o \in GoogleOutcomes :
                    TranscribeGoogle(p, o) =>
                        pipes'[p].text = transcribeWithGoogleSpeech(pipes[p].blob, o).text
    ]_vars

\* A recording's pipeline has completed: its record heads History and storage.
C4_Witness ==
    /\ mounted
    /\ Len(summaryHistory) = 2
    /\ summaryHistory[1].transcript = <<Space, "hello">>
    /\ summaryHistory[1].summary = <<"summary">>
    /\ summaryHistory[2] = OldRecord
    /\ storage = summaryHistory

\* C5: when the summarization of a pipeline fails, History and the storage
\* are unchanged, the failure's message is in the error slot and the
\* transcript slot is left as it is, showing a transcript.
C5_SummaryFailureKeepsTranscript ==
    [][\A p \in PipelineIds :
        pipes[p].stage = "summarizing" =>
          \A o \in SummaryOutcomes :
            (o.kind = "error" /\ Summarize(p, o)) =>
                /\ UNCHANGED <<summaryHistory, storage, transcript>>
                /\ mounted =>
                     /\ error' = MsgSummaryFailed
                     /\ error' # NoError
                     /\ transcript' # <<>>
                     /\ (pipes[p].kind = "recording" /\ nPipes = 1) =>
                            transcript' = pipes[p].text
    ]_vars

\* The summarization of a recording's pipeline has failed.
C5_Witness ==
    /\ mounted
    /\ error = MsgSummaryFailed
    /\ transcript = <<Space, "hello">>
    /\ summaryHistory = <<OldRecord>> /\ storage = <<OldRecord>>
    /\ PipelinesInFlight = {}

\* C6: whenever the transcription call fails, the pipeline ends there: the
\* summarization client is not invoked and no record is appended.
C6_TranscriptionFailureEndsPipeline ==
    [][\A p \in PipelineIds :
        pipes[p].stage = "transcribing" =>
          /\ \A o \in HfOutcomes :
                (o.kind = "error" /\ TranscribeHuggingFace(p, o)) =>
                    (pipes'[p].stage = "done" /\ UNCHANGED <<summaryHistory, storage>>)
          /\ \A o \in GoogleOutcomes :
                (o.kind = "error" /\ TranscribeGoogle(p, o)) =>
                    (pipes'[p].stage = "done" /\ UNCHANGED <<summaryHistory, storage>>)
    ]_vars

\* C7: summarizeMeeting is invoked only with the text the provider
\* recognised, and only when that text is not empty after trimming.
C7_SummarizeOnlyRecognizedText ==
    [][\A p \in PipelineIds :
        (pipes[p].stage = "transcribing" /\ pipes'[p].stage = "summarizing") =>
          /\ \A o \in HfOutcomes :
                (o.kind = "text" /\ TranscribeHuggingFace(p, o)) =>
                    (Trim(o.text) # <<>> /\ pipes'[p].text = o.text)
          /\ \A o \in GoogleOutcomes :
                (o.kind = "text" /\ TranscribeGoogle(p, o)) =>
                    (Trim(o.text) # <<>> /\ pipes'[p].text = o.text)
    ]_vars

\* C8: when the transcription client is invoked for a session, the recorder
\* of that session has already delivered its last chunk and fired its stop
\* event.
C8_TranscribeAfterStopEvent ==
    [][\A p \in PipelineIds :
        (pipes[p].stage = "idle" /\ pipes'[p].stage = "transcribing") =>
            ~recorders'[pipes'[p].rec].stopping
    ]_vars

\* C9: the artifact built at stop holds the chunks of that one session only,
\* and all of them: the chunk the recorder delivers with its stop event is
\* part of the artifact handed on for that session.
C9_ArtifactIsTheSessionsChunks ==
    [][/\ \A p \in PipelineIds :
            pipes'[p].stage = "transcribing" =>
                \A c \in Range(pipes'[p].blob) : c.rec = pipes'[p].rec
       /\ \A i \in RecorderIds : \A size \in FlushSizes :
            (size > 0 /\ RecorderStopEvent(i, size)) =>
                \A p \in PipelineIds :
                    (pipes[p].stage = "transcribing" /\ pipes[p].rec = i) =>
                        Chunk(i, recorders[i].n + 1, size) \in Range(pipes[p].blob)
    ]_vars

\* A call of stopRecording by a handler of the mounted component is part of
\* the step.
StopRecordingCalled ==
    \/ ClickStop
    \/ handleSignOut /\ isRecording
    \/ WatchdogTick /\ now - startTime >= maxRecordingDuration

\* C10: a call of stopRecording while no recording is active (no recorder,
\* or the recorder inactive) changes no state of the controller: flags,
\* error, transcript, summary, History, storage, recorders, buffer and
\* pipelines stay as they are; the call of the unmount cleanup likewise
\* changes no recorder, buffer, pipeline or stored History.
C10_StopWhenIdleIsNoOp ==
    [][/\ (RefState \in {"null", "inactive"} /\ StopRecordingCalled) =>
             UNCHANGED <<isRecording, isPaused, transcript, loading, transcribing,
                         summary, error, startTime, summaryHistory, audioURL,
                         audioSupported, speechService, mediaRecorderRef,
                         audioChunksRef, recorders, pipes, nPipes, storage>>
       /\ (RefState \in {"null", "inactive"} /\ Unmount) =>
             UNCHANGED <<mediaRecorderRef, audioChunksRef, recorders, pipes,
                         nPipes, storage>>
    ]_vars

\* The one session began and was stopped at clock 0 and its record was
\* saved; the interval, never cleared, reached the ceiling afterwards and
\* called stopRecording with the recorder inactive.
C10_Witness ==
    /\ mounted /\ ~isRecording
    /\ nRecorders = 1 /\ nTests = 0
    /\ RefState = "inactive"
    /\ storage # <<>> /\ storage[1].id = 0
    /\ startTime = 0 /\ duration = maxRecordingDuration

\* C11: when stopRecording stops an active recorder and the buffer holds no
\* chunk, or chunks of less than 1000 bytes together, the error slot gets
\* the empty-recording message, the controller is no longer recording or
\* paused, no pipeline is started (no transcription call, no summarization
\* call) and History is left alone; with no other pipeline in flight the
\* busy flags are off.
C11_EmptyRecordingIsRejected ==
    [][(/\ RefState \in {"recording", "paused"}
        /\ (Len(audioChunksRef) = 0 \/ BlobSize(audioChunksRef) < MinAudioSize)) =>
          /\ StopRecordingCalled =>
                /\ error' = (IF Len(audioChunksRef) = 0 THEN MsgNoAudioStop
                                                        ELSE MsgTooShortStop)
                /\ ~isRecording' /\ ~isPaused'
                /\ UNCHANGED <<pipes, nPipes, summaryHistory, storage, transcript,
                               summary>>
                /\ PipelinesInFlight = {} => (~transcribing' /\ ~loading')
          /\ Unmount => UNCHANGED <<pipes, nPipes, storage>>
    ]_vars

\* The one session was stopped with 400 bytes in the buffer.
C11_Witness ==
    /\ mounted /\ ~isRecording /\ ~transcribing /\ ~loading
    /\ error = MsgTooShortStop
    /\ nRecorders = 1 /\ nPipes = 0
    /\ RefState = "inactive"
    /\ audioChunksRef = <<Chunk(1, 1, 400)>>

\* C12: the stop the interval makes at the ceiling does what a stop button
\* pressed at that instant does: the pipeline it starts reads the current
\* History and the selected provider, and the duration it will record is the
\* elapsed time the tick has just stored.
C12_AutoStopIsManualStop ==
    [][(/\ RefState \in {"recording", "paused"}
        /\ nPipes' = nPipes + 1
        /\ WatchdogTick) =>
          /\ pipes'[nPipes'].hist = summaryHistory
          /\ pipes'[nPipes'].svc = speechService
          /\ pipes'[nPipes'].dur = duration'
    ]_vars

\* C13: the interval stops a session only when the time its recorder has
\* spent recording, pauses left out, has reached the ceiling.
C13_PausedTimeIsFrozen ==
    [][(/\ RefState \in {"recording", "paused"}
        /\ recorders'[mediaRecorderRef].state = "inactive"
        /\ WatchdogTick) =>
          recorders[mediaRecorderRef].t >= maxRecordingDuration
    ]_vars

\* The preconditions of startRecording, for the provider that is selected.
StartPreconditions ==
    captureSupported /\ KeyPresent(speechService) /\ env.gemini

\* C14: a call of startRecording goes on to ask for the microphone exactly
\* when capture is supported and the keys of the selected provider and of
\* the summarizer are present; otherwise it puts the capability or
\* configuration message in the error slot and asks for no microphone.  A
\* session is opened only where these preconditions held at the call.
C14_StartPreconditions ==
    /\ mounted =>
         /\ StartPreconditions <=>
               ENABLED (startRecording /\ micPending' = micPending + 1
                          /\ error' = NoError)
         /\ ~StartPreconditions =>
               /\ ~ENABLED (startRecording /\ micPending' # micPending)
               /\ ~ENABLED (startRecording /\ error' = NoError)
               /\ ENABLED (startRecording /\ micPending' = micPending
                             /\ error' \in {MsgHfKeyMissing, MsgGoogleKeyMissing,
                                            MsgGeminiKeyMissing, MsgNotSupported})
    /\ (micPending > 0 \/ LiveStreams # {}) =>
         (captureSupported /\ env.gemini /\ (env.huggingface \/ env.google))
    /\ (mounted /\ isRecording) => StartPreconditions

\* A session was opened where all preconditions hold.
C14_Witness ==
    /\ mounted /\ isRecording /\ StartPreconditions
    /\ RefState = "recording" /\ nRecorders = 1 /\ micPending = 0
    /\ error = NoError

\* C15: a startRecording call that goes on to ask for the microphone leaves
\* the transcript, summary and error slots empty, and when its session is
\* opened the controller is recording with startTime the current time.
C15_StartResetsResults ==
    [][/\ (mounted /\ micPending' = micPending + 1 /\ ClickStart) =>
            (transcript' = <<>> /\ summary' = NoSummary /\ error' = NoError)
       /\ (mounted /\ MicGranted) => (isRecording' /\ startTime' = now)
    ]_vars

\* C16: pauseRecording changes nothing unless the recorder of the ref is
\* recording, and resumeRecording changes nothing unless it is paused; where
\* they do act they only move the recorder between recording and paused; a
\* click on the pause / resume button never changes isRecording, the error
\* slot or the buffered chunks.
C16_PauseResumeNoOp ==
    [][/\ mounted =>
            /\ RefState # "recording" =>
                  ~ENABLED (pauseRecording
                              /\ (recorders' # recorders \/ isPaused' # isPaused))
            /\ RefState # "paused" =>
                  ~ENABLED (resumeRecording
                              /\ (recorders' # recorders \/ isPaused' # isPaused))
            /\ RefState = "recording" =>
                  ENABLED (pauseRecording /\ isPaused'
                             /\ recorders'[mediaRecorderRef].state = "paused")
            /\ RefState = "paused" =>
                  ENABLED (resumeRecording /\ ~isPaused'
                             /\ recorders'[mediaRecorderRef].state = "recording")
       /\ ClickPauseResume =>
            /\ UNCHANGED <<isRecording, error, audioChunksRef, audioURL, pipes,
                           storage, summaryHistory>>
            /\ \A i \in RecorderIds :
                  /\ recorders'[i].n = recorders[i].n
                  /\ recorders'[i].live = recorders[i].live
                  /\ i # mediaRecorderRef => recorders'[i] = recorders[i]
    ]_vars

\* A session with a delivered chunk was paused: the chunk is still buffered.
C16_Witness ==
    /\ mounted /\ isRecording /\ isPaused
    /\ RefState = "paused"
    /\ audioChunksRef = <<Chunk(1, 1, 1000)>>
    /\ error = NoError

\* C17: a sign-out or an unmount that finds the controller recording or
\* paused leaves no microphone stream live and no interval armed.
C17_TeardownReleasesAll ==
    [][(isRecording /\ (handleSignOut \/ Unmount)) =>
          /\ \A i \in RecorderIds : ~recorders'[i].live
          /\ tickClosure' = NoClosure
    ]_vars

\* C18: after the component was torn down no transcription or summarization
\* call of it is pending.
C18_NoWorkAfterTeardown ==
    ~mounted => PipelinesInFlight = {}

\* C19: whenever the mounted controller is not recording or paused, every
\* microphone stream that startRecording opened has been stopped.
C19_MicReleasedWhenIdle ==
    (mounted /\ ~isRecording) => LiveStreams = {}

\* C20: whenever the mounted controller is idle with no stream open and the
\* preconditions of a start hold (capture supported, keys present), a start
\* request is accepted, whatever failed before.
C20_ErrorsAreRecoverable ==
    (mounted /\ ~isRecording /\ LiveStreams = {} /\ StartPreconditions) =>
        StartButtonEnabled

\* C21: every step of the mounted controller in which a start, a
\* transcription call or a summarization call fails leaves a message in the
\* error slot.
C21_FailuresReachErrorSlot ==
    [][mounted =>
        /\ (MicDenied \/ MicGrantedRecorderThrows) => error' # NoError
        /\ (ClickStart /\ micPending' = micPending) => error' # NoError
        /\ \A p \in PipelineIds :
             /\ pipes[p].stage = "transcribing" =>
                  /\ \A o \in HfOutcomes :
                        (o.kind = "error" /\ TranscribeHuggingFace(p, o)) =>
                            error' # NoError
                  /\ \A o \in GoogleOutcomes :
                        (o.kind = "error" /\ TranscribeGoogle(p, o)) =>
                            error' # NoError
             /\ pipes[p].stage = "summarizing" =>
                  \A o \in SummaryOutcomes :
                      (o.kind = "error" /\ Summarize(p, o)) => error' # NoError
    ]_vars

\* The key is missing, or holds the empty text or the serialization of [].
EmptyPersisted == {NoItem, EmptyText, <<>>}

\* The controller as it is after a start with nothing to show.
IdleAtStart ==
    /\ mounted
    /\ ~isRecording /\ ~isPaused /\ ~transcribing /\ ~loading
    /\ transcript = <<>> /\ summary = NoSummary /\ startTime = NoTime
    /\ mediaRecorderRef = 0 /\ PipelinesInFlight = {}

\* C22: when the key is missing or empty at the start, the load throws
\* nothing: the controller is mounted and idle and History is empty; the
\* component goes away only by an unmount, and History stays empty as long as
\* nothing was written to the key.
C22_LoadOfEmptyStorage ==
    /\ storage \in EmptyPersisted => (IdleAtStart /\ summaryHistory = <<>>)
    /\ [][/\ (mounted /\ ~mounted') => Unmount
          /\ (storage' \in EmptyPersisted /\ mounted') => summaryHistory' = <<>>
       ]_vars

\* The key held the empty text at the start and the controller is in use.
C22_Witness ==
    /\ storage = EmptyText
    /\ mounted /\ isRecording /\ summaryHistory = <<>>

\* C23: when the key holds a text that cannot be parsed at the start, the
\* controller is mounted and idle and History is empty.
C23_MalformedStorageIsEmptyHistory ==
    /\ storage = Malformed => (IdleAtStart /\ summaryHistory = <<>>)
    /\ [][storage = Malformed => (mounted /\ ~mounted' => Unmount)]_vars

\* The ids of the records of a list are pairwise distinct.
UniqueIds(hist) ==
    \A i, j \in 1..Len(hist) : i # j => hist[i].id # hist[j].id

\* C24: in every reachable state the ids of the records of History, in
\* memory and in the storage, are pairwise distinct.
C24_RecordIdsUnique ==
    UniqueIds(summaryHistory) /\ UniqueIds(storage)

\* C25: the duration a stopRecording call hands to its pipeline is the time
\* elapsed since the start of the session it stops, at most one step of the
\* clock behind (the readout is refreshed once per tick) and never ahead;
\* the record the pipeline appends carries that duration.
C25_DurationIsSessionLength ==
    [][\A p \in PipelineIds :
        /\ (mounted /\ pipes[p].stage = "idle" /\ pipes'[p].stage = "transcribing") =>
             LET elapsed == now - startTime IN
             /\ pipes'[p].dur >= 0
             /\ pipes'[p].dur <= elapsed
             /\ pipes'[p].dur >= elapsed - ClockStep
        /\ (pipes[p].stage = "summarizing" /\ pipes[p].kind = "recording") =>
             \A o \in SummaryOutcomes :
                 (o.kind = "text" /\ Summarize(p, o)) =>
                     storage'[1].duration = pipes[p].dur
    ]_vars

\* C26: while the mounted controller is recording or paused no step changes
\* the selected provider, so that the provider a stop hands the audio to is
\* the one that was selected when the session was opened.
C26_ProviderFixedDuringSession ==
    [][(mounted /\ mounted' /\ isRecording /\ ActiveRecorders # {}) =>
          /\ speechService' = speechService
          /\ \A p \in PipelineIds :
                (pipes[p].stage = "idle" /\ pipes'[p].stage = "transcribing") =>
                    pipes'[p].svc = speechService
    ]_vars

\* C27: in every reachable state in which the mounted controller is not
\* recording, startTime is null and no interval is armed.
C27_StartTimeNullWhenIdle ==
    (mounted /\ ~isRecording) => (startTime = NoTime /\ tickClosure = NoClosure)

\* C28: after the load and after every step, the History the mounted
\* controller holds is the list a load of the storage yields; a step that
\* writes the storage writes the whole list the controller then holds (one
\* new record in front of the list a pipeline read), and History changes in
\* no other step.
C28_MemoryEqualsStorage ==
    /\ mounted =>
         (~LoadHistory(storage).thrown /\ summaryHistory = LoadHistory(storage).text)
    /\ [][/\ mounted' =>
               /\ ~LoadHistory(storage').thrown
               /\ summaryHistory' = LoadHistory(storage').text
          /\ storage' # storage =>
               /\ \E p \in PipelineIds :
                     /\ pipes[p].stage = "summarizing"
                     /\ storage' = <<storage'[1]>> \o pipes[p].hist
               /\ mounted => summaryHistory' = storage'
          /\ (mounted' /\ summaryHistory' # summaryHistory) => storage' # storage
       ]_vars

\* Two appends were made, one after the other, onto a persisted record.
C28_Witness ==
    /\ mounted /\ nPipes = 2 /\ PipelinesInFlight = {}
    /\ Len(summaryHistory) = 3
    /\ summaryHistory = storage

\* C29: under the assumption that every external call settles, whenever a
\* pipeline is in flight a state follows in which no pipeline is in flight
\* and both busy flags are off.
C29_PipelinesEndIdle ==
    (PipelinesInFlight # {}) ~>
        (PipelinesInFlight = {} /\ ~transcribing /\ ~loading)

\* The pipeline of the one recording has ended on a failure of the
\* transcription call, and the controller is idle with both flags off.
C29_Witness ==
    /\ mounted /\ ~isRecording
    /\ nRecorders = 1 /\ nPipes = 1 /\ pipes[1].stage = "done"
    /\ error = HfMsgRateLimited
    /\ ~transcribing /\ ~loading

\* C30: in every reachable state of the mounted controller in which a
\* transcription or summarization call is in flight, transcribing or loading
\* is on; no step turns both flags off while a call stays in flight.
C30_BusyWhileInFlight ==
    (mounted /\ PipelinesInFlight # {}) => (transcribing \/ loading)

\* C31: in every reachable state of the mounted controller isPaused implies
\* isRecording, isRecording is on exactly when the recorder the ref holds is
\* recording or paused, and isPaused is on exactly when it is paused.
C31_FlagsMirrorRecorder ==
    mounted =>
        /\ isPaused => isRecording
        /\ isRecording <=> (RefState \in {"recording", "paused"})
        /\ isPaused <=> (RefState = "paused")

(***************************************************************************)
(* The speech-recognition variant of the component, src/unnamed/part_000.   *)
(* It records with a MediaRecorder for the audio preview and takes the      *)
(* transcript from a SpeechRecognition object.  It shares the state, the    *)
(* history load, the interval effect (without the auto-stop) and the        *)
(* summarization step with the component above; `captureSupported` stands   *)
(* here for 'webkitSpeechRecognition' in window, and the component stays    *)
(* mounted.  Interim results only feed a display field and are left out.    *)
(***************************************************************************)
MaxResults == 1   \* final results the recognizers deliver in one run

MsgNoRecognition == "Speech recognition is not supported in this browser"
MsgNoMicrophone  == "No microphone detected. Please ensure a microphone is connected and try again."
MsgMicNotAllowed == "Microphone access was denied. Please allow microphone access and try again."
MsgRecognitionError(e) == <<"Speech recognition error:", e>>

RecognitionErrors == {"no-speech", "network"}

\* The final results a recognizer delivers, and the sizes of the recorder's
\* data; the variant tests no size.
RecogFinalTexts == { <<>>, <<"hello">> }
RecogSliceSizes == {1000}
RecogFlushSizes == {400}

recogFrame == <<env, captureSupported, mounted, transcribing, audioSupported,
                speechService, nTests, formVars>>

RefRecognizer ==
    IF recognitionRef = 0 THEN "null" ELSE recognizers[recognitionRef].state

\* A recognizer between start() and its end event.
Running(k) == recognizers[k].state \in {"starting", "started", "stopping"}

\* recognition.stop(): an end event will follow if the recognizer runs.
RecognitionStop(rs) ==
    IF recognitionRef # 0 /\ rs[recognitionRef].state \in {"starting", "started"}
    THEN [rs EXCEPT ![recognitionRef].state = "stopping"]
    ELSE rs

\* startRecording up to its await of getUserMedia (part_000:136-138); the
\* handlers setupRecognition will create capture the state of this render.
RecogStartRecording ==
    /\ micPending' = micPending + 1
    /\ recognizers' = [recognizers EXCEPT ![nRecorders + 1] =
                         [state |-> "pending", isRecording |-> isRecording,
                          isPaused |-> isPaused, startTime |-> startTime]]

\* The start button, rendered when isRecording is off (part_000:266-273).
RecogClickStart ==
    /\ mounted /\ ~isRecording
    /\ nRecorders < MaxSessions
    /\ nRecorders' = nRecorders + 1
    /\ RecogStartRecording
    /\ UNCHANGED <<recogFrame, reactState, mediaRecorderRef, audioChunksRef,
                   recorders, pipes, nPipes, storage, now, recognitionRef>>
    /\ EffectRerun

\* The startRecording call that has waited longest for the microphone.
PendingStart ==
    CHOOSE k \in RecognizerIds :
        /\ recognizers[k].state = "pending"
        /\ \A j \in RecognizerIds : recognizers[j].state = "pending" => k <= j

\* getUserMedia resolves (part_000:140-162): the recorder is started, then
\* setupRecognition creates the recognizer, or throws into the catch block.
RecogMicGranted ==
    /\ micPending > 0
    /\ micPending' = micPending - 1
    /\ recorders' = [recorders EXCEPT ![NextRecorder] =
                       [state |-> "recording", live |-> TRUE, stopping |-> FALSE,
                        n |-> 0, t |-> 0]]
    /\ mediaRecorderRef' = NextRecorder
    /\ IF captureSupported
       THEN /\ recognizers' = [recognizers EXCEPT ![PendingStart].state = "starting"]
            /\ recognitionRef' = PendingStart
            /\ error' = NoError
       ELSE /\ recognizers' = [recognizers EXCEPT ![PendingStart] = NoRecognizer]
            /\ error' = MsgNoRecognition
            /\ UNCHANGED recognitionRef
    /\ UNCHANGED <<recogFrame, isRecording, isPaused, transcript, loading, summary,
                   startTime, duration, summaryHistory, audioURL, audioChunksRef,
                   nRecorders, pipes, nPipes, storage, now>>
    /\ EffectRerun

\* getUserMedia rejects: the catch block (part_000:163-166).
RecogMicDenied ==
    /\ micPending > 0
    /\ micPending' = micPending - 1
    /\ recognizers' = [recognizers EXCEPT ![PendingStart] = NoRecognizer]
    /\ error' = MsgPermissionDenied
    /\ UNCHANGED <<recogFrame, isRecording, isPaused, transcript, loading, summary,
                   startTime, duration, summaryHistory, audioURL, mediaRecorderRef,
                   audioChunksRef, recorders, nRecorders, pipes, nPipes, storage,
                   now, recognitionRef>>
    /\ EffectRerun

\* recognition.onstart (part_000:83-90), reading the captured startTime.
RecognitionStarted(k) ==
    /\ recognizers[k].state = "starting"
    /\ recognizers' = [recognizers EXCEPT ![k].state = "started"]
    /\ isRecording' = TRUE
    /\ error' = NoError
    /\ startTime' = IF recognizers[k].startTime = NoTime THEN now ELSE startTime
    /\ UNCHANGED <<recogFrame, isPaused, transcript, loading, summary, duration,
                   summaryHistory, audioURL, mediaRecorderRef, audioChunksRef,
                   recorders, nRecorders, micPending, pipes, nPipes, storage, now,
                   recognitionRef>>
    /\ EffectRerun

\* recognition.onresult with a final result (part_000:92-111).
RecognitionResult(k, text) ==
    /\ recognizers[k].state = "started"
    /\ Len(transcript) < 2 * MaxResults
    /\ transcript' = transcript \o text \o <<Space>>
    /\ UNCHANGED <<recogFrame, isRecording, isPaused, loading, summary, error,
                   startTime, duration, summaryHistory, audioURL, mediaRecorderRef,
                   audioChunksRef, recorders, nRecorders, micPending, pipes, nPipes,
                   storage, now, recogVars>>
    /\ EffectRerun

\* recognition.onerror (part_000:113-124); the end event follows.
RecognitionError(k, e) ==
    /\ recognizers[k].state \in {"starting", "started"}
    /\ recognizers' = [recognizers EXCEPT ![k].state = "stopping"]
    /\ error' = CASE e = "no-speech" -> error
                  [] e = "audio-capture" -> MsgNoMicrophone
                  [] e = "not-allowed" -> MsgMicNotAllowed
                  [] OTHER -> MsgRecognitionError(e)
    /\ UNCHANGED <<recogFrame, isRecording, isPaused, transcript, loading, summary,
                   startTime, duration, summaryHistory, audioURL, mediaRecorderRef,
                   audioChunksRef, recorders, nRecorders, micPending, pipes, nPipes,
                   storage, now, recognitionRef>>
    /\ EffectRerun

\* recognition.onend (part_000:126-131), reading the captured flags.
onend(k) ==
    recognizers' = [recognizers EXCEPT ![k].state =
                       IF recognizers[k].isRecording /\ ~recognizers[k].isPaused
                       THEN "starting" ELSE "ended"]

\* The recognizer ends: after a stop() or an error, or by itself (the service
\* closes a session after a silence or after some time).
RecognitionEnds(k) ==
    /\ recognizers[k].state \in {"started", "stopping"}
    /\ onend(k)
    /\ UNCHANGED <<recogFrame, reactState, mediaRecorderRef, audioChunksRef,
                   recorders, nRecorders, micPending, pipes, nPipes, storage, now,
                   recognitionRef>>
    /\ EffectRerun

\* mediaRecorder.onstop of the variant (part_000:148-152).
RecogRecorderStopEvent(i, size) ==
    /\ recorders[i].stopping
    /\ recorders' = [recorders EXCEPT ![i].stopping = FALSE]
    /\ ondataavailable(i, recorders[i].n + 1, size)
    /\ audioURL' = audioChunksRef'
    /\ UNCHANGED <<recogFrame, isRecording, isPaused, transcript, loading, summary,
                   error, startTime, duration, summaryHistory, mediaRecorderRef,
                   nRecorders, micPending, pipes, nPipes, storage, now, recogVars>>
    /\ EffectRerun

\* part_000:169-177.
RecogPauseRecording ==
    /\ recognizers' = RecognitionStop(recognizers)
    /\ recorders' = IF RefState = "recording"
                    THEN [recorders EXCEPT ![mediaRecorderRef].state = "paused"]
                    ELSE recorders
    /\ isPaused' = TRUE

\* part_000:179-187.  start() of a recognizer that has not ended throws, and
\* nothing after it runs.
RecogResumeRecording ==
    IF recognitionRef # 0 /\ isPaused /\ Running(recognitionRef)
    THEN UNCHANGED <<recognizers, recorders, isPaused>>
    ELSE /\ recognizers' = IF recognitionRef # 0 /\ isPaused
                           THEN [recognizers EXCEPT ![recognitionRef].state = "starting"]
                           ELSE recognizers
         /\ recorders' = IF RefState = "paused"
                         THEN [recorders EXCEPT ![mediaRecorderRef].state = "recording"]
                         ELSE recorders
         /\ isPaused' = FALSE

\* The pause / resume button (part_000:276-291).
RecogClickPauseResume ==
    /\ mounted /\ isRecording
    /\ IF isPaused THEN RecogResumeRecording ELSE RecogPauseRecording
    /\ UNCHANGED <<recogFrame, isRecording, transcript, loading, summary, error,
                   startTime, duration, summaryHistory, audioURL, mediaRecorderRef,
                   audioChunksRef, nRecorders, micPending, pipes, nPipes, storage,
                   now, recognitionRef>>
    /\ EffectRerun

\* stopRecording of the variant up to its await (part_000:189-206).
RecogStopRecording ==
    /\ recognizers' = RecognitionStop(recognizers)
    /\ recorders' = IF RefState \in {"recording", "paused"}
                    THEN [recorders EXCEPT ![mediaRecorderRef].state = "inactive",
                                           ![mediaRecorderRef].stopping = TRUE,
                                           ![mediaRecorderRef].live = FALSE,
                                           ![mediaRecorderRef].t = 0]
                    ELSE recorders
    /\ isRecording' = FALSE
    /\ isPaused' = FALSE
    /\ startTime' = NoTime
    /\ IF Trim(transcript) # <<>>
       THEN /\ loading' = TRUE
            /\ nPipes' = nPipes + 1
            /\ pipes' = [pipes EXCEPT ![nPipes + 1] =
                           [stage |-> "summarizing", kind |-> "recording", rec |-> 0,
                            hist |-> summaryHistory, dur |-> duration,
                            svc |-> "none", blob |-> <<>>, text |-> transcript]]
       ELSE UNCHANGED <<loading, pipes, nPipes>>

\* The stop button (part_000:292-298).
RecogClickStop ==
    /\ mounted /\ isRecording
    /\ RecogStopRecording
    /\ UNCHANGED <<recogFrame, transcript, summary, error, duration, summaryHistory,
                   audioURL, mediaRecorderRef, audioChunksRef, nRecorders, micPending,
                   storage, now, recognitionRef>>
    /\ EffectRerun

\* The interval callback of the variant (part_000:51-55).
RecogIntervalTick ==
    /\ IntervalArmed
    /\ duration' = now - startTime
    /\ duration' # duration
    /\ UNCHANGED <<recogFrame, isRecording, isPaused, transcript, loading, summary,
                   error, startTime, summaryHistory, audioURL, mediaRecorderRef,
                   audioChunksRef, recorders, nRecorders, micPending, pipes, nPipes,
                   storage, now, recogVars>>
    /\ EffectRerun

RecogInit ==
    /\ env = [gemini |-> TRUE, huggingface |-> FALSE, google |-> FALSE]
    /\ captureSupported \in BOOLEAN
    /\ storage = <<>>
    /\ mounted = TRUE
    /\ isRecording = FALSE /\ isPaused = FALSE
    /\ transcript = <<>> /\ loading = FALSE /\ transcribing = FALSE
    /\ summary = NoSummary /\ error = NoError
    /\ startTime = NoTime /\ duration = 0
    /\ summaryHistory = LoadHistory(storage).text
    /\ audioURL = NoURL
    /\ audioSupported = TRUE
    /\ speechService = "huggingface"
    /\ mediaRecorderRef = 0
    /\ audioChunksRef = <<>>
    /\ tickClosure = NoClosure
    /\ recorders = [i \in RecorderIds |-> NoRecorder]
    /\ nRecorders = 0 /\ micPending = 0
    /\ pipes = [p \in PipelineIds |-> IdlePipe]
    /\ nPipes = 0 /\ nTests = 0
    /\ now = 0
    /\ recognitionRef = 0
    /\ recognizers = [k \in RecognizerIds |-> NoRecognizer]
    /\ FormsInit

RecogNext ==
    \/ RecogClickStart
    \/ RecogMicGranted
    \/ RecogMicDenied
    \/ \E k \in RecognizerIds : RecognitionStarted(k)
    \/ \E k \in RecognizerIds, text \in RecogFinalTexts : RecognitionResult(k, text)
    \/ \E k \in RecognizerIds, e \in RecognitionErrors : RecognitionError(k, e)
    \/ \E k \in RecognizerIds : RecognitionEnds(k)
    \/ \E i \in RecorderIds, size \in RecogSliceSizes : DataAvailable(i, size)
    \/ \E i \in RecorderIds, size \in RecogFlushSizes : RecogRecorderStopEvent(i, size)
    \/ RecogClickPauseResume
    \/ RecogClickStop
    \/ \E p \in PipelineIds, o \in SummaryOutcomes : Summarize(p, o)
    \/ Tick
    \/ RecogIntervalTick

RecogSpec == RecogInit /\ [][RecogNext]_vars

\* C32: when the recognizer of the session ends while the controller is
\* recording and not paused, its onend handler starts it again; when it ends
\* after a pause or a stop it is left ended.
C32_RecognizerRestarts ==
    [][\A k \in RecognizerIds :
        (k = recognitionRef /\ RecognitionEnds(k)) =>
            /\ (isRecording /\ ~isPaused) => recognizers'[k].state = "starting"
            /\ (~isRecording \/ isPaused) => recognizers'[k].state = "ended"
    ]_vars

(***************************************************************************)
(* The email dialog (src/components/EmailDialog.tsx).  A text is a sequence *)
(* of tokens: a token is one character, or a run of letters and digits.     *)
(***************************************************************************)
MaxMails == 2   \* links the mail handler receives before the model stops

\* The characters the class \s and String.prototype.trim take as white space.
Whitespace == {" ", "\n"}

MsgInvalidEmails == <<"Please enter valid email addresses separated by commas">>

\* String.prototype.trim.
RECURSIVE trim(_)
trim(s) ==
    IF s # <<>> /\ Head(s) \in Whitespace THEN trim(Tail(s))
    ELSE IF s # <<>> /\ s[Len(s)] \in Whitespace THEN trim(SubSeq(s, 1, Len(s) - 1))
    ELSE s

\* The text before the first separator, and the text after it.
Before(s, seps) ==
    IF \E i \in 1..Len(s) : s[i] \in seps
    THEN SubSeq(s, 1, (CHOOSE i \in 1..Len(s) :
                          s[i] \in seps /\ \A j \in 1..(i - 1) : s[j] \notin seps) - 1)
    ELSE s

After(s, seps) ==
    IF \E i \in 1..Len(s) : s[i] \in seps
    THEN SubSeq(s, Len(Before(s, seps)) + 2, Len(s))
    ELSE <<>>

\* String.prototype.split: a text without the separator is one part.
RECURSIVE split(_, _)
split(s, sep) ==
    IF \E i \in 1..Len(s) : s[i] = sep
    THEN <<Before(s, {sep})>> \o split(After(s, {sep}), sep)
    ELSE <<s>>

\* Array.prototype.join.
RECURSIVE join(_, _)
join(list, sep) ==
    IF list = <<>> THEN <<>>
    ELSE IF Len(list) = 1 THEN list[1]
    ELSE list[1] \o <<sep>> \o join(Tail(list), sep)

\* /^[^\s@]+@[^\s@]+\.[^\s@]+$/.test(email): no white space, one "@" that is
\* not the first character, and after it a "." with a character on each side.
test(email) ==
    /\ \A i \in 1..Len(email) : email[i] \notin Whitespace
    /\ \E i \in 2..Len(email) :
          /\ email[i] = "@"
          /\ \A j \in 1..Len(email) : email[j] = "@" => j = i
          /\ \E j \in (i + 2)..(Len(email) - 1) : email[j] = "."

\* encodeURIComponent, on the characters the texts of the model hold.
EncodeChar(c) ==
    CASE c = " "  -> "%20"
      [] c = "\n" -> "%0A"
      [] c = "#"  -> "%23"
      [] c = "&"  -> "%26"
      [] c = ","  -> "%2C"
      [] c = "/"  -> "%2F"
      [] c = ":"  -> "%3A"
      [] c = "="  -> "%3D"
      [] c = "?"  -> "%3F"
      [] c = "@"  -> "%40"
      [] OTHER    -> c

encodeURIComponent(s) == [i \in 1..Len(s) |-> EncodeChar(s[i])]

\* The recipient lists typed into the textarea.
Addr1 == <<"a", "@", "b", ".", "c">>
Addr2 == <<"d", "@", "e", ".", "f">>
EmailInputs ==
    { <<>>,                                  \* nothing typed
      Addr1,
      Addr1 \o <<",", " ">> \o Addr2,        \* two entries, blank after the comma
      <<" ">> \o Addr2 \o <<"\n">>,          \* white space around the entry
      <<"a", "@", "b">>,                     \* no dot after the "@"
      Addr1 \o <<",">>,                      \* trailing comma: an empty entry
      Addr1 \o <<",", "b">>,                 \* second entry malformed
      <<"a", "?", "b", "@", "c", ".", "d">>  \* a "?" in the local part
    }

\* The props the parent renders the dialog with (part_001:654-661).
EmailSummaries == { <<"summary">>, <<"Q", "&", "A", "\n">> }
EmailDates     == { 0, 90061 }      \* new Date().toISOString(), seconds since the epoch
EmailDurations == { 59, 125 }

Pad2(n) == IF n < 10 THEN <<"0", ToString(n)>> ELSE <<ToString(n)>>

\* new Date(date).toLocaleString(), en-US in UTC, for dates in January 1970.
toLocaleString(date) ==
    LET h == (date \div 3600) % 24
    IN  <<"1", "/", ToString(1 + date \div 86400), "/", "1970", ",", " ",
          ToString(IF h % 12 = 0 THEN 12 ELSE h % 12), ":">>
        \o Pad2((date \div 60) % 60) \o <<":">> \o Pad2(date % 60)
        \o <<" ", IF h < 12 THEN "AM" ELSE "PM">>

formattedDuration(d) == <<ToString(d \div 60), " ", "minutes">>

subject(date) == <<"Meeting", " ", "Summary", " ", "-", " ">> \o toLocaleString(date)

body(sum, date, dur) ==
    trim(<<"\n", "Meeting", " ", "Summary", "\n", "Date", ":", " ">>
         \o toLocaleString(date)
         \o <<"\n", "Duration", ":", " ">> \o formattedDuration(dur)
         \o <<"\n", "\n">> \o sum \o <<"\n", " ", " ", " ", " ">>)

emailList(emails) ==
    LET parts == split(emails, ",") IN [i \in 1..Len(parts) |-> trim(parts[i])]

validEmails(list) == \A i \in 1..Len(list) : test(list[i])

mailtoLink(list, sum, date, dur) ==
    <<"mailto:">> \o join(list, ",")
    \o <<"?", "subject", "=">> \o encodeURIComponent(subject(date))
    \o <<"&", "body", "=">> \o encodeURIComponent(body(sum, date, dur))

\* decodeURIComponent, the inverse of EncodeChar on an encoded text.
DecodeChar(c) ==
    CASE c = "%20" -> " "
      [] c = "%0A" -> "\n"
      [] c = "%23" -> "#"
      [] c = "%26" -> "&"
      [] c = "%2C" -> ","
      [] c = "%2F" -> "/"
      [] c = "%3A" -> ":"
      [] c = "%3D" -> "="
      [] c = "%3F" -> "?"
      [] c = "%40" -> "@"
      [] OTHER     -> c

decodeURIComponent(s) == [i \in 1..Len(s) |-> DecodeChar(s[i])]

\* Whether the text holds the separator.
Has(s, sep) == \E i \in 1..Len(s) : s[i] = sep

\* What the mail handler reads in the link assigned to window.location.href
\* (the mailto URI scheme): the fragment is dropped, the recipients are the
\* text before the first "?", the header fields follow it, separated by "&".
MailtoParse(link) ==
    LET uri     == Before(Tail(link), {"#"})
        to      == split(Before(uri, {"?"}), ",")
        hfields == IF Has(uri, "?") THEN split(After(uri, {"?"}), "&") ELSE <<>>
        Named(name) == {i \in 1..Len(hfields) : Before(hfields[i], {"="}) = <<name>>}
        Value(name) == IF Named(name) = {} THEN <<>>
                       ELSE decodeURIComponent(
                                After(hfields[CHOOSE i \in Named(name) :
                                                 \A j \in Named(name) : i <= j], {"="}))
    IN  [to      |-> [i \in 1..Len(to) |-> decodeURIComponent(to[i])],
         subject |-> Value("subject"),
         body    |-> Value("body")]

\* The state of the controller, which the dialog and the form never write.
controllerVars == <<env, captureSupported, mounted, reactState, mediaRecorderRef,
                    audioChunksRef, tickClosure, recorders, nRecorders, micPending,
                    pipes, nPipes, nTests, storage, now, recogVars>>

\* part_001:634 and 654-661: "Send via Email" opens the dialog; the parent
\* renders it with the summary, the date of the render and the duration.
OpenEmailDialog(sum, date, dur) ==
    /\ mounted /\ ~emailDialog.isOpen
    /\ emailDialog' = [emailDialog EXCEPT !.isOpen = TRUE, !.summary = sum,
                                          !.date = date, !.duration = dur]
    /\ UNCHANGED <<controllerVars, mailHandler, authForm, identityProvider>>

\* EmailDialog.tsx:68: the textarea's onChange.
TypeEmails(text) ==
    /\ emailDialog.isOpen
    /\ emailDialog' = [emailDialog EXCEPT !.emails = text]
    /\ UNCHANGED <<controllerVars, mailHandler, authForm, identityProvider>>

\* EmailDialog.tsx:53-58 and 82-88: the X and Cancel buttons call onClose.
CloseEmailDialog ==
    /\ emailDialog.isOpen
    /\ emailDialog' = [emailDialog EXCEPT !.isOpen = FALSE]
    /\ UNCHANGED <<controllerVars, mailHandler, authForm, identityProvider>>

\* EmailDialog.tsx:18-46.
handleSubmit ==
    IF ~validEmails(emailList(emailDialog.emails))
    THEN /\ emailDialog' = [emailDialog EXCEPT !.error = MsgInvalidEmails]
         /\ UNCHANGED mailHandler
    ELSE /\ mailHandler' = Append(mailHandler,
                                  mailtoLink(emailList(emailDialog.emails),
                                             emailDialog.summary, emailDialog.date,
                                             emailDialog.duration))
         /\ emailDialog' = [emailDialog EXCEPT !.isOpen = FALSE]

\* The form is submitted ("Send Email").
SubmitEmails ==
    /\ emailDialog.isOpen
    /\ Len(mailHandler) < MaxMails
    /\ handleSubmit
    /\ UNCHANGED <<controllerVars, authForm, identityProvider>>

\* The controller is mounted with every key present; what it shows reaches the
\* dialog as props.
EmailInit == LiveInit /\ env.huggingface /\ env.google

EmailNext ==
    \/ \E sum \in EmailSummaries, date \in EmailDates, dur \in EmailDurations :
          OpenEmailDialog(sum, date, dur)
    \/ \E text \in EmailInputs : TypeEmails(text)
    \/ CloseEmailDialog
    \/ SubmitEmails

EmailSpec == EmailInit /\ [][EmailNext]_vars

\* Whether the text sub occurs in the text s.
Contains(s, sub) ==
    \E i \in 0..(Len(s) - Len(sub)) : SubSeq(s, i + 1, i + Len(sub)) = sub

\* C33: a submission with an entry that is not a well-formed address sets the
\* validation error, hands nothing to the mail handler and leaves the dialog
\* open; a submission of well-formed entries hands the mail handler exactly one
\* message, addressed to all entries, whose subject holds the formatted date and
\* whose body holds the duration and the summary, and closes the dialog.
C33_EmailSubmit ==
    [][SubmitEmails =>
         LET list == emailList(emailDialog.emails)
         IN  IF \E i \in 1..Len(list) : ~test(list[i])
             THEN /\ emailDialog'.error = MsgInvalidEmails
                  /\ mailHandler' = mailHandler
                  /\ emailDialog'.isOpen
             ELSE /\ Len(mailHandler') = Len(mailHandler) + 1
                  /\ SubSeq(mailHandler', 1, Len(mailHandler)) = mailHandler
                  /\ LET m == MailtoParse(mailHandler'[Len(mailHandler')])
                     IN  /\ m.to = list
                         /\ Contains(m.subject, toLocaleString(emailDialog.date))
                         /\ Contains(m.body, formattedDuration(emailDialog.duration))
                         /\ Contains(m.body, trim(emailDialog.summary))
                  /\ ~emailDialog'.isOpen
    ]_vars

(***************************************************************************)
(* The sign-in form (src/components/Auth.tsx) and the session the App keeps *)
(* (part_002:8-37).                                                         *)
(***************************************************************************)
MaxCalls == 4   \* calls the identity provider receives before the model stops

MsgPasswordTooShort  == "Password must be at least 6 characters long"
MsgInvalidLogin      == "Invalid login credentials"
MsgEmailNotConfirmed == "Email not confirmed"
MsgAlreadyRegistered == "User already registered"
MsgFetchFailed       == "Failed to fetch"
MsgTryAgain          == "Invalid email or password. Please try again or create a new account."
MsgSignInInstead     == "An account with this email already exists. Please sign in instead."

\* The passwords typed into the form: 0, 5, 6 and 7 characters.
PasswordLengths == {0, 5, 6, 7}
Passwords == { [i \in 1..n |-> "x"] : n \in PasswordLengths }

\* What a call of the identity provider resolves to: an error, or none and
\* possibly a session.  signInWithPassword without an error gives a session.
AuthResult(e, s) == [error |-> e, session |-> s]
SignInResults ==
    {AuthResult(NoError, TRUE)}
    \cup {AuthResult(e, FALSE) : e \in {MsgInvalidLogin, MsgEmailNotConfirmed, MsgFetchFailed}}
SignUpResults ==
    {AuthResult(NoError, TRUE), AuthResult(NoError, FALSE)}
    \cup {AuthResult(e, FALSE) : e \in {MsgAlreadyRegistered, MsgFetchFailed}}

\* A variant of validatePassword that accepts every password.
validatePasswordAcceptsAll(password) == NoError

\* Auth.tsx:13-18.
validatePassword(password) ==
    IF Len(password) < 6 THEN MsgPasswordTooShort ELSE NoError

\* part_002:18-27: the provider announces a session, the App stores it and
\* renders the controller in place of the form, whose state is discarded.
ControllerMounts ==
    /\ mounted' = ~LoadHistory(storage).thrown
    /\ isRecording' = FALSE /\ isPaused' = FALSE
    /\ transcript' = <<>> /\ loading' = FALSE /\ transcribing' = FALSE
    /\ summary' = NoSummary
    /\ error' = IF ~mounted' THEN NoError
                ELSE IF ~env.gemini THEN MsgGeminiKeyMissing
                ELSE IF ~env.huggingface /\ ~env.google
                THEN "No speech-to-text API keys are available."
                ELSE IF ~captureSupported THEN MsgNotSupported
                ELSE NoError
    /\ startTime' = NoTime /\ duration' = 0
    /\ summaryHistory' = IF mounted' THEN LoadHistory(storage).text ELSE <<>>
    /\ audioURL' = NoURL
    /\ audioSupported' = IF mounted' THEN captureSupported ELSE TRUE
    /\ speechService' = IF mounted' /\ env.google THEN "google" ELSE "huggingface"
    /\ EffectRerun
    /\ UNCHANGED <<env, captureSupported, mediaRecorderRef, audioChunksRef, recorders,
                   nRecorders, micPending, pipes, nPipes, nTests, storage, now,
                   recogVars>>

\* The handler goes on after a call of the provider has resolved with res:
\* with a session the form is gone and its setters do nothing; without one
\* the handler sets err and ends with setLoading(false).
HandlerEnds(res, err) ==
    IF res.session
    THEN /\ authForm' = AuthState
         /\ ControllerMounts
    ELSE /\ authForm' = [authForm EXCEPT !.error = err, !.loading = FALSE,
                                         !.pc = "idle"]
         /\ UNCHANGED controllerVars

\* The handler calls the provider and is suspended at the await.
CallProvider(pc) ==
    /\ identityProvider' = [identityProvider EXCEPT !.calls = @ + 1]
    /\ authForm' = [authForm EXCEPT !.loading = TRUE, !.error = NoError,
                                    !.message = NoError, !.pc = pc]

\* The handler returns at the validation (lines 26-31 and 67-72).
RejectPassword(passwordError) ==
    /\ authForm' = [authForm EXCEPT !.loading = FALSE, !.error = passwordError,
                                    !.message = NoError]
    /\ UNCHANGED identityProvider

\* Auth.tsx:20-36: handleSignIn up to its first await.
handleSignIn ==
    IF validatePassword(authForm.password) # NoError
    THEN RejectPassword(validatePassword(authForm.password))
    ELSE CallProvider("signIn")

\* Auth.tsx:61-80: handleSignUp up to its first await.
handleSignUp ==
    IF validatePassword(authForm.password) # NoError
    THEN RejectPassword(validatePassword(authForm.password))
    ELSE CallProvider("signUp")

\* Auth.tsx:179-181: the button, disabled while loading.
ClickSubmit ==
    /\ ~identityProvider.session /\ ~authForm.loading
    /\ identityProvider.calls + 2 <= MaxCalls
    /\ IF authForm.mode = "signin" THEN handleSignIn ELSE handleSignUp
    /\ UNCHANGED <<controllerVars, emailDialog, mailHandler>>

\* Auth.tsx:33-58: signInWithPassword has resolved.
SignInSettles(res) ==
    /\ authForm.pc = "signIn"
    /\ IF res.error = MsgEmailNotConfirmed
       THEN /\ identityProvider' = [identityProvider EXCEPT !.calls = @ + 1]
            /\ authForm' = [authForm EXCEPT !.pc = "signIn-signUp"]
            /\ UNCHANGED controllerVars
       ELSE /\ identityProvider' = [identityProvider EXCEPT !.session = res.session]
            /\ HandlerEnds(res, IF res.error = NoError THEN authForm.error
                                ELSE IF res.error = MsgInvalidLogin THEN MsgTryAgain
                                ELSE res.error)
    /\ UNCHANGED <<emailDialog, mailHandler>>

\* Auth.tsx:43-58: the signUp that handleSignIn fell back to has resolved.
SignInFallbackSettles(res) ==
    /\ authForm.pc = "signIn-signUp"
    /\ identityProvider' = [identityProvider EXCEPT !.session = res.session]
    /\ HandlerEnds(res, IF res.error = NoError THEN authForm.error ELSE res.error)
    /\ UNCHANGED <<emailDialog, mailHandler>>

\* Auth.tsx:74-102: signUp has resolved.
SignUpSettles(res) ==
    /\ authForm.pc = "signUp"
    /\ IF res.error = NoError /\ ~res.session
       THEN /\ identityProvider' = [identityProvider EXCEPT !.calls = @ + 1]
            /\ authForm' = [authForm EXCEPT !.pc = "signUp-signIn"]
            /\ UNCHANGED controllerVars
       ELSE /\ identityProvider' = [identityProvider EXCEPT !.session = res.session]
            /\ HandlerEnds(res, IF res.error = NoError THEN authForm.error
                                ELSE IF res.error = MsgAlreadyRegistered
                                THEN MsgSignInInstead
                                ELSE res.error)
    /\ UNCHANGED <<emailDialog, mailHandler>>

\* Auth.tsx:92-102: the signInWithPassword that handleSignUp fell back to has
\* resolved.
SignUpFallbackSettles(res) ==
    /\ authForm.pc = "signUp-signIn"
    /\ identityProvider' = [identityProvider EXCEPT !.session = res.session]
    /\ HandlerEnds(res, IF res.error = NoError THEN authForm.error ELSE res.error)
    /\ UNCHANGED <<emailDialog, mailHandler>>

\* Auth.tsx:116-134: the two tabs.
SetMode(mode) ==
    /\ ~identityProvider.session
    /\ authForm' = [authForm EXCEPT !.mode = mode, !.error = NoError,
                                    !.message = NoError]
    /\ authForm' # authForm
    /\ UNCHANGED <<controllerVars, emailDialog, mailHandler, identityProvider>>

\* Auth.tsx:163: the password input's onChange.
TypePassword(password) ==
    /\ ~identityProvider.session
    /\ authForm' = [authForm EXCEPT !.password = password]
    /\ authForm' # authForm
    /\ UNCHANGED <<controllerVars, emailDialog, mailHandler, identityProvider>>

\* Nobody is signed in: the App renders the form and no controller.
AuthInit ==
    /\ env = [gemini |-> TRUE, huggingface |-> TRUE, google |-> TRUE]
    /\ captureSupported = TRUE
    /\ storage \in PersistedAtStart
    /\ mounted = FALSE
    /\ isRecording = FALSE /\ isPaused = FALSE
    /\ transcript = <<>> /\ loading = FALSE /\ transcribing = FALSE
    /\ summary = NoSummary /\ error = NoError
    /\ startTime = NoTime /\ duration = 0
    /\ summaryHistory = <<>> /\ audioURL = NoURL
    /\ audioSupported = TRUE /\ speechService = "huggingface"
    /\ mediaRecorderRef = 0
    /\ audioChunksRef = <<>>
    /\ tickClosure = NoClosure
    /\ recorders = [i \in RecorderIds |-> NoRecorder]
    /\ nRecorders = 0 /\ micPending = 0
    /\ pipes = [p \in PipelineIds |-> IdlePipe]
    /\ nPipes = 0 /\ nTests = 0
    /\ now = 0
    /\ recognitionRef = 0
    /\ recognizers = [k \in RecognizerIds |-> NoRecognizer]
    /\ EmailDialogInit
    /\ authForm = AuthState
    /\ identityProvider = [calls |-> 0, session |-> FALSE]

AuthNext ==
    \/ ClickSubmit
    \/ \E res \in SignInResults : SignInSettles(res)
    \/ \E res \in SignUpResults : SignInFallbackSettles(res)
    \/ \E res \in SignUpResults : SignUpSettles(res)
    \/ \E res \in SignInResults : SignUpFallbackSettles(res)
    \/ \E mode \in {"signin", "signup"} : SetMode(mode)
    \/ \E password \in Passwords : TypePassword(password)

AuthSpec == AuthInit /\ [][AuthNext]_vars

\* C34: a click with a password of fewer than 6 characters sets an error and
\* makes no call to the identity provider, and whenever a handler of the form
\* has finished, on any of its paths, loading is false.
C34_ShortPasswordRejectedLoadingCleared ==
    [][/\ (ClickSubmit /\ Len(authForm.password) < 6) =>
              /\ authForm'.error = MsgPasswordTooShort
              /\ identityProvider' = identityProvider
              /\ authForm'.pc = "idle"
       /\ authForm'.pc = "idle" => ~authForm'.loading
    ]_vars

\* After a sign-in that fell back to a sign-up which failed, a short password
\* was rejected: the provider has received the two calls of the first click.
C34_Witness ==
    /\ authForm.error = MsgPasswordTooShort
    /\ authForm.pc = "idle" /\ ~authForm.loading
    /\ identityProvider.calls = 2
    /\ ~identityProvider.session

\* The classification rules of the claim, in its order: credential, 429, 413,
\* 400, 404, 401, network, timeout.
HfRules ==
    << [patterns |-> {"api key", "apikey"},          msg |-> HfMsgInvalidKey],
       [patterns |-> {"429", "too many requests"},   msg |-> HfMsgRateLimited],
       [patterns |-> {"413", "too large"},           msg |-> HfMsgTooLarge],
       [patterns |-> {"400", "invalid format"},      msg |-> HfMsgBadFormat],
       [patterns |-> {"404", "not found"},           msg |-> HfMsgNotFound],
       [patterns |-> {"401", "unauthorized"},        msg |-> HfMsgUnauthorized],
       [patterns |-> {"network", "connection"},      msg |-> HfMsgNetwork],
       [patterns |-> {"timeout"},                    msg |-> HfMsgTimeout] >>

\* The rules a failure message matches.
HfMatching(msg) ==
    {k \in 1..Len(HfRules) : \E t \in HfRules[k].patterns : includes(toLowerCase(msg), t)}

\* C35: when the provider call of transcribeAudio fails, transcribeAudio fails
\* too: with the error of the first rule the failure message matches, in the
\* order credential, 429, 413, 400, 404, 401, network, timeout, and with some
\* error when the message matches no rule; the error depends on the message only.
C35_FailureClassifiedByFirstRule ==
    [][\A p \in PipelineIds, o \in HfOutcomes :
         (/\ o.kind = "error" /\ env.huggingface
          /\ BlobSize(pipes[p].blob) >= MinAudioSize
          /\ TranscribeHuggingFace(p, o)) =>
             LET res == transcribeAudio(pipes[p].blob, env.huggingface, o)
             IN  /\ res.thrown
                 /\ res = ClassifyHfError(o.msg)
                 /\ HfMatching(o.msg) # {} =>
                       res.msg = HfRules[CHOOSE k \in HfMatching(o.msg) :
                                            \A j \in HfMatching(o.msg) : k <= j].msg
    ]_vars

====
